---- MODULE Spec2Model ----
(***************************************************************************)
(* skillsync: the skill store, the dependency resolver (pattern matcher -> *)
(* cache -> remote inference), the analysis endpoint it calls, and the     *)
(* consistency checker.  Skill names are TLA+ strings; the string helpers  *)
(* below compute what String.prototype.toLowerCase / trim / includes /     *)
(* replace(/\s+/g,'-') compute, restricted to ASCII letters and the        *)
(* whitespace characters space, tab and newline.                           *)
(***************************************************************************)
EXTENDS Integers, Sequences, FiniteSets, TLC

VARIABLES
  skills,              \* flat store: useSkillStore.skills (store.ts:126)
  nextId,              \* number of ids generateId has handed out (flat store)
  treeSkills,          \* tree store: useSkillStore.skills (store.ts:321)
  treeNextId,          \* number of ids generateId has handed out (tree store)
  skillAnalysisCache,  \* part_008:32, module-level Map keyed by normalized name
  calls,               \* getSkillDependencies invocations and where each stands
  lastCheck,           \* the last validateSkillConsistencyEnhanced run and its result
  prevCheck,           \* the run before it
  lastQuery,           \* the last getSkillWarnings call and its result
  lastOp,              \* the last store operation (and the name, for an add)
  lastRecommend,       \* the last getWhatToLearnNext call and its result
  walk,                \* the learning-path walk in progress, or its result
  lastResponse,        \* the last request to the analysis endpoint and its answer
  discovery,           \* the missing-skills panel: its list and its analysis in flight
  learningPath         \* the getSkillLearningRecommendations calls and where each stands

vars == <<skills, nextId, treeSkills, treeNextId, skillAnalysisCache, calls,
          lastCheck, prevCheck, lastQuery, lastOp, lastRecommend, walk,
          lastResponse, discovery, learningPath>>

-----------------------------------------------------------------------------
(* Bounds *)

MaxStoreSkills == 2 \* skills in the flat store
MaxTreeSkills == 2  \* skills in the tree store
MaxCalls == 2      \* getSkillDependencies invocations in one behaviour
MaxChecks == 2     \* successive consistency checks of one collection
MaxEvals == 1      \* teaching evaluations per skill
MaxRecommends == 1 \* recommender runs in one behaviour
MaxWalks == 1      \* learning paths generated in one behaviour
MaxLearningPaths == 2 \* getSkillLearningRecommendations calls, which may overlap
MaxOverlapping == 3 \* getSkillDependencies invocations that may overlap
MaxScenarioOps == 4 \* store operations in the scenario of a skill and its dependency

-----------------------------------------------------------------------------
(* Skill names the operations are exercised with *)

\* names handed to the resolver: in the static table and pattern-matched
\* ("Docker Compose"), in the static table only ("Git", and " GIT ", which
\* normalizes to the same key), in neither ("Cooking")
ResolveNames == {"Git", " GIT ", "Docker Compose", "Cooking"}

\* two spellings of one name, and another name
StoreNames == {"Python", "python", "Docker"}

TreeNames == {"Python", "python"}

\* a pattern-matched skill that depends on Docker, Docker itself, a name
\* that contains "Docker", and a name only inference can resolve
CheckNames == {"Kubernetes", "Docker", "Docker Compose", "Cooking"}

\* a skill whose rule enables three others, a name only inference can
\* resolve, and a name the heuristics suggest
RecommendNames == {"React", "Cooking", "Testing"}

\* names that occur in the answers of the inference service
AnswerNames == {"Version Control", "docker", "Baking", "testing", "cooking "}

\* two spellings of one name that differ in whitespace only, and another
\* name only inference can resolve, and a name whose prerequisites are the
\* other two
WalkNames == {"Cooking", "Cooking ", "Baking", "Stew"}

\* names the recommender would offer, spelled as a user may have typed them
HeldNames == {"next.js ", "cloud computing"}

InputNames ==
  ResolveNames \cup StoreNames \cup TreeNames \cup CheckNames \cup RecommendNames
  \cup AnswerNames \cup WalkNames \cup HeldNames

-----------------------------------------------------------------------------
(* The rule tables of part_008 as data *)

AlgorithmicRules ==
  << [any |-> {"react native"}, none |-> {}, dependencies |-> <<"React", "JavaScript", "Mobile Development">>,
      description |-> "React Native extends React for mobile apps", difficulty |-> 7, estimatedHours |-> 50,
      enables |-> <<"Expo", "Mobile App Development">>, category |-> "mobile"],
     [any |-> {"react"}, none |-> {"native"}, dependencies |-> <<"JavaScript", "HTML", "CSS">>,
      description |-> "React is a JavaScript library for building UIs", difficulty |-> 6, estimatedHours |-> 40,
      enables |-> <<"Next.js", "React Native", "Redux">>, category |-> "frontend"],
     [any |-> {"vue"}, none |-> {}, dependencies |-> <<"JavaScript", "HTML", "CSS">>,
      description |-> "Vue.js is a progressive JavaScript framework", difficulty |-> 5, estimatedHours |-> 35,
      enables |-> <<"Nuxt.js", "Vuex", "Vue Router">>, category |-> "frontend"],
     [any |-> {"angular"}, none |-> {}, dependencies |-> <<"TypeScript", "JavaScript", "HTML", "CSS">>,
      description |-> "Angular is a TypeScript-based web framework", difficulty |-> 7, estimatedHours |-> 45,
      enables |-> <<"RxJS", "Angular Material", "NgRx">>, category |-> "frontend"],
     [any |-> {"next.js", "nextjs"}, none |-> {}, dependencies |-> <<"React", "JavaScript", "Node.js">>,
      description |-> "Next.js is a React framework with SSR capabilities", difficulty |-> 6, estimatedHours |-> 30,
      enables |-> <<"Vercel", "Server-Side Rendering">>, category |-> "frontend"],
     [any |-> {"express"}, none |-> {}, dependencies |-> <<"Node.js", "JavaScript", "HTTP">>,
      description |-> "Express.js is a Node.js web framework", difficulty |-> 4, estimatedHours |-> 20,
      enables |-> <<"REST APIs", "Middleware">>, category |-> "backend"],
     [any |-> {"django"}, none |-> {}, dependencies |-> <<"Python", "HTTP", "Database Design">>,
      description |-> "Django is a Python web framework", difficulty |-> 6, estimatedHours |-> 35,
      enables |-> <<"Django REST Framework", "PostgreSQL">>, category |-> "backend"],
     [any |-> {"flask"}, none |-> {}, dependencies |-> <<"Python", "HTTP">>,
      description |-> "Flask is a lightweight Python web framework", difficulty |-> 4, estimatedHours |-> 20,
      enables |-> <<"REST APIs", "Jinja2">>, category |-> "backend"],
     [any |-> {"spring"}, none |-> {}, dependencies |-> <<"Java", "HTTP", "Database Design">>,
      description |-> "Spring is a Java application framework", difficulty |-> 7, estimatedHours |-> 40,
      enables |-> <<"Spring Boot", "Microservices">>, category |-> "backend"],
     [any |-> {"kubernetes", "k8s"}, none |-> {}, dependencies |-> <<"Docker", "Linux", "YAML", "Containerization">>,
      description |-> "Kubernetes orchestrates containerized applications", difficulty |-> 8, estimatedHours |-> 60,
      enables |-> <<"Helm", "Istio", "Container Orchestration">>, category |-> "devops"],
     [any |-> {"docker"}, none |-> {}, dependencies |-> <<"Linux", "Containerization">>,
      description |-> "Docker enables application containerization", difficulty |-> 5, estimatedHours |-> 25,
      enables |-> <<"Kubernetes", "Docker Compose">>, category |-> "devops"],
     [any |-> {"terraform"}, none |-> {}, dependencies |-> <<"Cloud Computing", "Infrastructure as Code">>,
      description |-> "Terraform manages infrastructure through code", difficulty |-> 7, estimatedHours |-> 40,
      enables |-> <<"AWS", "Multi-cloud">>, category |-> "infrastructure"],
     [any |-> {"ansible"}, none |-> {}, dependencies |-> <<"Linux", "YAML", "Configuration Management">>,
      description |-> "Ansible automates configuration management", difficulty |-> 6, estimatedHours |-> 30,
      enables |-> <<"Infrastructure Automation">>, category |-> "infrastructure"],
     [any |-> {"aws"}, none |-> {"lambda"}, dependencies |-> <<"Cloud Computing">>,
      description |-> "Amazon Web Services cloud platform", difficulty |-> 6, estimatedHours |-> 50,
      enables |-> <<"AWS Lambda", "EC2", "S3">>, category |-> "cloud"],
     [any |-> {"aws lambda"}, none |-> {}, dependencies |-> <<"AWS", "Serverless", "Cloud Computing">>,
      description |-> "AWS Lambda serverless computing service", difficulty |-> 6, estimatedHours |-> 25,
      enables |-> <<"Serverless Architecture">>, category |-> "cloud"],
     [any |-> {"azure"}, none |-> {}, dependencies |-> <<"Cloud Computing">>,
      description |-> "Microsoft Azure cloud platform", difficulty |-> 6, estimatedHours |-> 50,
      enables |-> <<"Azure Functions", "Azure DevOps">>, category |-> "cloud"],
     [any |-> {"gcp", "google cloud"}, none |-> {}, dependencies |-> <<"Cloud Computing">>,
      description |-> "Google Cloud Platform", difficulty |-> 6, estimatedHours |-> 50,
      enables |-> <<"Google App Engine", "BigQuery">>, category |-> "cloud"],
     [any |-> {"postgresql", "postgres"}, none |-> {}, dependencies |-> <<"SQL", "Database Design">>,
      description |-> "PostgreSQL is an advanced relational database", difficulty |-> 6, estimatedHours |-> 35,
      enables |-> <<"Advanced SQL", "Database Administration">>, category |-> "database"],
     [any |-> {"mongodb", "mongo"}, none |-> {}, dependencies |-> <<"Database Design", "JSON", "NoSQL">>,
      description |-> "MongoDB is a document-based NoSQL database", difficulty |-> 5, estimatedHours |-> 30,
      enables |-> <<"Mongoose", "Aggregation Pipelines">>, category |-> "database"],
     [any |-> {"redis"}, none |-> {}, dependencies |-> <<"Database Design", "Caching">>,
      description |-> "Redis is an in-memory data structure store", difficulty |-> 4, estimatedHours |-> 15,
      enables |-> <<"Session Management", "Message Queues">>, category |-> "database"],
     [any |-> {"mysql"}, none |-> {}, dependencies |-> <<"SQL", "Database Design">>,
      description |-> "MySQL is a popular relational database", difficulty |-> 5, estimatedHours |-> 30,
      enables |-> <<"Database Administration", "Replication">>, category |-> "database"],
     [any |-> {"typescript"}, none |-> {}, dependencies |-> <<"JavaScript">>,
      description |-> "TypeScript adds static typing to JavaScript", difficulty |-> 5, estimatedHours |-> 20,
      enables |-> <<"Angular", "Strict Type Checking">>, category |-> "programming"],
     [any |-> {"node.js", "nodejs"}, none |-> {}, dependencies |-> <<"JavaScript">>,
      description |-> "Node.js runs JavaScript on the server", difficulty |-> 4, estimatedHours |-> 25,
      enables |-> <<"Express.js", "NPM">>, category |-> "backend"],
     [any |-> {"python"}, none |-> {}, dependencies |-> <<"Programming Fundamentals">>,
      description |-> "Python is a versatile programming language", difficulty |-> 3, estimatedHours |-> 40,
      enables |-> <<"Django", "Flask", "Data Science">>, category |-> "programming"],
     [any |-> {"java"}, none |-> {"javascript"}, dependencies |-> <<"Programming Fundamentals", "Object-Oriented Programming">>,
      description |-> "Java is an object-oriented programming language", difficulty |-> 5, estimatedHours |-> 50,
      enables |-> <<"Spring", "Android Development">>, category |-> "programming"],
     [any |-> {"go", "golang"}, none |-> {}, dependencies |-> <<"Programming Fundamentals">>,
      description |-> "Go is a statically typed programming language", difficulty |-> 5, estimatedHours |-> 35,
      enables |-> <<"Microservices", "Concurrency">>, category |-> "programming"],
     [any |-> {"ios", "swift"}, none |-> {}, dependencies |-> <<"Programming Fundamentals", "Mobile Development">>,
      description |-> "iOS development with Swift", difficulty |-> 6, estimatedHours |-> 60,
      enables |-> <<"App Store", "UIKit">>, category |-> "mobile"],
     [any |-> {"android", "kotlin"}, none |-> {}, dependencies |-> <<"Programming Fundamentals", "Mobile Development">>,
      description |-> "Android development", difficulty |-> 6, estimatedHours |-> 60,
      enables |-> <<"Google Play", "Android SDK">>, category |-> "mobile"],
     [any |-> {"flutter"}, none |-> {}, dependencies |-> <<"Dart", "Mobile Development">>,
      description |-> "Flutter cross-platform mobile framework", difficulty |-> 6, estimatedHours |-> 45,
      enables |-> <<"Cross-platform Development">>, category |-> "mobile"],
     [any |-> {"jest"}, none |-> {}, dependencies |-> <<"JavaScript", "Testing">>,
      description |-> "Jest is a JavaScript testing framework", difficulty |-> 4, estimatedHours |-> 15,
      enables |-> <<"Unit Testing", "Test-Driven Development">>, category |-> "testing"],
     [any |-> {"cypress"}, none |-> {}, dependencies |-> <<"JavaScript", "Testing", "Web Development">>,
      description |-> "Cypress is an end-to-end testing framework", difficulty |-> 5, estimatedHours |-> 20,
      enables |-> <<"E2E Testing", "Test Automation">>, category |-> "testing"],
     [any |-> {"graphql"}, none |-> {}, dependencies |-> <<"HTTP", "API Design">>,
      description |-> "GraphQL is a query language for APIs", difficulty |-> 6, estimatedHours |-> 25,
      enables |-> <<"Apollo", "GraphQL Subscriptions">>, category |-> "api"],
     [any |-> {"rest", "rest api"}, none |-> {}, dependencies |-> <<"HTTP", "API Design">>,
      description |-> "REST is an architectural style for APIs", difficulty |-> 4, estimatedHours |-> 20,
      enables |-> <<"OpenAPI", "Microservices">>, category |-> "api"] >>

SKILL_DEPENDENCIES ==
  << [skillName |-> "Kubernetes", dependencies |-> <<"Docker", "Linux", "YAML">>,
      description |-> "Kubernetes orchestrates containers, requiring Docker knowledge", difficulty |-> 8, estimatedHours |-> 60,
      enables |-> <<"Helm", "Istio", "Docker Swarm", "Container Orchestration">>, category |-> "devops"],
     [skillName |-> "Docker Compose", dependencies |-> <<"Docker">>,
      description |-> "Docker Compose builds on basic Docker concepts", difficulty |-> 5, estimatedHours |-> 15,
      enables |-> <<"Multi-container Applications", "Development Environments">>, category |-> "devops"],
     [skillName |-> "Microservices", dependencies |-> <<"API Design", "HTTP">>,
      description |-> "Microservices architecture requires API and HTTP knowledge", difficulty |-> 7, estimatedHours |-> 40,
      enables |-> <<"Service Mesh", "Event-Driven Architecture", "Domain-Driven Design">>, category |-> "architecture"],
     [skillName |-> "GraphQL", dependencies |-> <<"HTTP", "API Design">>,
      description |-> "GraphQL is an API technology requiring HTTP understanding", difficulty |-> 6, estimatedHours |-> 25,
      enables |-> <<"Apollo", "Relay", "GraphQL Subscriptions">>, category |-> "api"],
     [skillName |-> "React Native", dependencies |-> <<"React", "JavaScript">>,
      description |-> "React Native extends React concepts to mobile development", difficulty |-> 7, estimatedHours |-> 50,
      enables |-> <<"Expo", "Mobile App Development", "Cross-platform Development">>, category |-> "mobile"],
     [skillName |-> "Next.js", dependencies |-> <<"React", "JavaScript", "Node.js">>,
      description |-> "Next.js is a React framework requiring React and Node.js knowledge", difficulty |-> 6, estimatedHours |-> 30,
      enables |-> <<"Server-Side Rendering", "Static Site Generation", "Vercel">>, category |-> "frontend"],
     [skillName |-> "TypeScript", dependencies |-> <<"JavaScript">>,
      description |-> "TypeScript builds on JavaScript fundamentals", difficulty |-> 5, estimatedHours |-> 20,
      enables |-> <<"Angular", "Strict Type Checking", "Advanced JavaScript">>, category |-> "programming"],
     [skillName |-> "Node.js", dependencies |-> <<"JavaScript">>,
      description |-> "Node.js runs JavaScript on the server", difficulty |-> 4, estimatedHours |-> 25,
      enables |-> <<"Express.js", "NestJS", "Server-side JavaScript">>, category |-> "backend"],
     [skillName |-> "Express.js", dependencies |-> <<"Node.js", "JavaScript", "HTTP">>,
      description |-> "Express.js is a Node.js web framework", difficulty |-> 4, estimatedHours |-> 20,
      enables |-> <<"REST APIs", "Web Applications", "Middleware">>, category |-> "backend"],
     [skillName |-> "MongoDB", dependencies |-> <<"Database Design", "JSON">>,
      description |-> "MongoDB is a NoSQL database requiring database concepts", difficulty |-> 5, estimatedHours |-> 30,
      enables |-> <<"Mongoose", "Aggregation Pipelines", "NoSQL Design">>, category |-> "database"],
     [skillName |-> "PostgreSQL", dependencies |-> <<"SQL", "Database Design">>,
      description |-> "PostgreSQL requires SQL and database design knowledge", difficulty |-> 6, estimatedHours |-> 35,
      enables |-> <<"Advanced SQL", "Database Administration", "Data Analytics">>, category |-> "database"],
     [skillName |-> "Redis", dependencies |-> <<"Database Design", "Caching">>,
      description |-> "Redis is an in-memory database used for caching", difficulty |-> 4, estimatedHours |-> 15,
      enables |-> <<"Session Management", "Message Queues", "Real-time Applications">>, category |-> "database"],
     [skillName |-> "AWS Lambda", dependencies |-> <<"Cloud Computing", "Serverless">>,
      description |-> "Lambda is a serverless compute service requiring cloud knowledge", difficulty |-> 6, estimatedHours |-> 25,
      enables |-> <<"Serverless Architecture", "Event-driven Computing", "AWS Services">>, category |-> "cloud"],
     [skillName |-> "Terraform", dependencies |-> <<"Cloud Computing", "Infrastructure as Code">>,
      description |-> "Terraform requires cloud and IaC understanding", difficulty |-> 7, estimatedHours |-> 40,
      enables |-> <<"Infrastructure Automation", "Multi-cloud Deployments", "DevOps">>, category |-> "infrastructure"],
     [skillName |-> "Ansible", dependencies |-> <<"Linux", "Configuration Management">>,
      description |-> "Ansible automates configuration management on Linux systems", difficulty |-> 6, estimatedHours |-> 30,
      enables |-> <<"Infrastructure Automation", "Server Configuration", "DevOps">>, category |-> "infrastructure"],
     [skillName |-> "Jenkins", dependencies |-> <<"CI/CD", "Linux">>,
      description |-> "Jenkins is a CI/CD tool typically running on Linux", difficulty |-> 5, estimatedHours |-> 25,
      enables |-> <<"Build Automation", "Deployment Pipelines", "DevOps">>, category |-> "devops"],
     [skillName |-> "Git", dependencies |-> <<"Version Control">>,
      description |-> "Git is a version control system", difficulty |-> 3, estimatedHours |-> 15,
      enables |-> <<"GitHub", "GitLab", "Collaborative Development">>, category |-> "tools"],
     [skillName |-> "Docker", dependencies |-> <<"Linux", "Containerization">>,
      description |-> "Docker enables application containerization", difficulty |-> 5, estimatedHours |-> 25,
      enables |-> <<"Kubernetes", "Docker Compose", "Container Orchestration">>, category |-> "devops"],
     [skillName |-> "React", dependencies |-> <<"JavaScript", "HTML", "CSS">>,
      description |-> "React is a JavaScript library for building user interfaces", difficulty |-> 6, estimatedHours |-> 40,
      enables |-> <<"Next.js", "React Native", "Redux", "Component Libraries">>, category |-> "frontend"],
     [skillName |-> "JavaScript", dependencies |-> <<"HTML", "CSS">>,
      description |-> "JavaScript is the programming language of the web", difficulty |-> 4, estimatedHours |-> 50,
      enables |-> <<"TypeScript", "Node.js", "React", "Vue.js", "Angular">>, category |-> "programming"] >>

-----------------------------------------------------------------------------
(* The tables of the recommender, part_005, as data *)

\* part_005:690-698
complementarySkillsMap ==
  << [key |-> "frontend", skills |-> <<"Testing", "Performance Optimization", "Accessibility", "SEO">>],
     [key |-> "backend", skills |-> <<"Database Design", "API Design", "Security", "Monitoring">>],
     [key |-> "devops", skills |-> <<"Security", "Monitoring", "Automation", "Infrastructure as Code">>],
     [key |-> "mobile", skills |-> <<"UX Design", "App Store Optimization", "Performance Testing">>],
     [key |-> "data", skills |-> <<"Statistics", "Machine Learning", "Data Visualization", "Big Data">>],
     [key |-> "cloud", skills |-> <<"Security", "Cost Optimization", "Monitoring", "DevOps">>],
     [key |-> "programming", skills |-> <<"Algorithm Design", "Code Review", "Testing", "Documentation">>] >>

\* part_005:720-729
roleSkillsMap ==
  << [key |-> "developer", skills |-> <<"Code Review", "Testing", "Version Control", "Debugging">>],
     [key |-> "frontend developer", skills |-> <<"UX Design", "Performance Optimization", "Browser DevTools">>],
     [key |-> "backend developer", skills |-> <<"Database Design", "API Design", "Security", "Scalability">>],
     [key |-> "fullstack developer", skills |-> <<"System Design", "DevOps", "Testing", "Performance">>],
     [key |-> "devops engineer", skills |-> <<"Infrastructure as Code", "Monitoring", "Security", "Automation">>],
     [key |-> "data scientist", skills |-> <<"Statistics", "Machine Learning", "Data Visualization", "Python">>],
     [key |-> "product manager", skills |-> <<"User Research", "Data Analysis", "Project Management", "Communication">>],
     [key |-> "designer", skills |-> <<"User Research", "Prototyping", "Design Systems", "Accessibility">>] >>

\* part_005:761-764
trendingSkills ==
  <<"AI/Machine Learning", "Cloud Computing", "Cybersecurity", "DevOps", "Data Analysis", "Agile Methodology", "Microservices", "Containerization">>

\* part_005:843-888
skillClusters ==
  << [key |-> "react", skills |-> <<"Vue.js", "Angular", "Svelte", "Solid.js">>],
     [key |-> "vue", skills |-> <<"React", "Angular", "Svelte", "Alpine.js">>],
     [key |-> "angular", skills |-> <<"React", "Vue.js", "TypeScript", "RxJS">>],
     [key |-> "nodejs", skills |-> <<"Deno", "Bun", "Express.js", "Fastify">>],
     [key |-> "express", skills |-> <<"Fastify", "Koa.js", "Hapi.js", "NestJS">>],
     [key |-> "django", skills |-> <<"Flask", "FastAPI", "Ruby on Rails", "Laravel">>],
     [key |-> "flask", skills |-> <<"Django", "FastAPI", "Express.js", "Sinatra">>],
     [key |-> "postgresql", skills |-> <<"MySQL", "SQLite", "MariaDB", "CockroachDB">>],
     [key |-> "mysql", skills |-> <<"PostgreSQL", "MariaDB", "SQLite", "Microsoft SQL Server">>],
     [key |-> "mongodb", skills |-> <<"DynamoDB", "CouchDB", "Cassandra", "Firebase Firestore">>],
     [key |-> "redis", skills |-> <<"Memcached", "Amazon ElastiCache", "Hazelcast", "Apache Ignite">>],
     [key |-> "aws", skills |-> <<"Azure", "Google Cloud Platform", "DigitalOcean", "Heroku">>],
     [key |-> "azure", skills |-> <<"AWS", "Google Cloud Platform", "IBM Cloud", "Oracle Cloud">>],
     [key |-> "gcp", skills |-> <<"AWS", "Azure", "DigitalOcean", "Linode">>],
     [key |-> "docker", skills |-> <<"Podman", "LXC", "Containerd", "rkt">>],
     [key |-> "kubernetes", skills |-> <<"Docker Swarm", "Nomad", "OpenShift", "Rancher">>],
     [key |-> "jenkins", skills |-> <<"GitLab CI", "GitHub Actions", "CircleCI", "Travis CI">>],
     [key |-> "terraform", skills |-> <<"Ansible", "Pulumi", "CloudFormation", "Chef">>],
     [key |-> "javascript", skills |-> <<"TypeScript", "Python", "Java", "C#">>],
     [key |-> "python", skills |-> <<"JavaScript", "Java", "Go", "Ruby">>],
     [key |-> "java", skills |-> <<"C#", "Kotlin", "Scala", "Python">>],
     [key |-> "go", skills |-> <<"Rust", "Python", "C++", "Java">>],
     [key |-> "rust", skills |-> <<"Go", "C++", "Zig", "Carbon">>],
     [key |-> "jest", skills |-> <<"Mocha", "Jasmine", "Vitest", "Cypress">>],
     [key |-> "cypress", skills |-> <<"Playwright", "Selenium", "Puppeteer", "TestCafe">>],
     [key |-> "mocha", skills |-> <<"Jest", "Jasmine", "AVA", "Tape">>],
     [key |-> "react native", skills |-> <<"Flutter", "Ionic", "Xamarin", "Cordova">>],
     [key |-> "flutter", skills |-> <<"React Native", "Ionic", "NativeScript", "Xamarin">>],
     [key |-> "ios", skills |-> <<"Android", "Flutter", "React Native", "Xamarin">>],
     [key |-> "android", skills |-> <<"iOS", "Flutter", "React Native", "Ionic">>] >>

\* part_005:928-932
similarSkillDifficultyMap ==
  ("Vue.js" :> 5) @@ ("Angular" :> 7) @@ ("Svelte" :> 4) @@ ("Solid.js" :> 5) @@ ("Deno" :> 4) @@ ("Bun" :> 3) @@ ("Express.js" :> 4) @@ ("Fastify" :> 4) @@ ("Flask" :> 4) @@ ("FastAPI" :> 5) @@ ("Ruby on Rails" :> 6) @@ ("Laravel" :> 5)

\* part_005:941-945
similarSkillHoursMap ==
  ("Vue.js" :> 30) @@ ("Angular" :> 40) @@ ("Svelte" :> 25) @@ ("Solid.js" :> 25) @@ ("Deno" :> 20) @@ ("Bun" :> 15) @@ ("Express.js" :> 20) @@ ("Fastify" :> 20) @@ ("Flask" :> 20) @@ ("FastAPI" :> 25) @@ ("Ruby on Rails" :> 35) @@ ("Laravel" :> 30)

TableNames(table) ==
  UNION {{table[r].skills[j] : j \in 1..Len(table[r].skills)} : r \in 1..Len(table)}

\* the names in the lists `field` of the rows of a table
ListedNames(table, field) ==
  UNION {{table[r][field][j] : j \in 1..Len(table[r][field])} : r \in 1..Len(table)}

\* the names a table of skill records mentions
RecordNames(table) ==
  {table[r].skillName : r \in 1..Len(table)} \cup ListedNames(table, "dependencies")

\* the names the rules of the pattern matcher return
RuleNames(rules) == ListedNames(rules, "enables") \cup ListedNames(rules, "dependencies")

ElementsOf(list) == {list[j] : j \in 1..Len(list)}

\* every name the tables mention and every input name
ModelStrings ==
  InputNames
  \cup TableNames(complementarySkillsMap) \cup TableNames(roleSkillsMap)
  \cup TableNames(skillClusters)
  \cup ElementsOf(trendingSkills)
  \cup RuleNames(AlgorithmicRules)
  \cup RecordNames(SKILL_DEPENDENCIES)

-----------------------------------------------------------------------------
(* Strings *)

UpperLetters == "ABCDEFGHIJKLMNOPQRSTUVWXYZ"
LowerLetters == "abcdefghijklmnopqrstuvwxyz"

CharAt(s, i) == SubSeq(s, i, i)

IsWhitespace(c) == c \in {" ", "\t", "\n"}

\* the lower-case letter of every upper-case letter
LowerOf ==
  [c \in {CharAt(UpperLetters, i) : i \in 1..26} |->
     CharAt(LowerLetters, CHOOSE i \in 1..26 : CharAt(UpperLetters, i) = c)]

LowerChar(c) == IF c \in DOMAIN LowerOf THEN LowerOf[c] ELSE c

RECURSIVE LowerCaseChars(_)
LowerCaseChars(s) ==
  IF Len(s) = 0 THEN ""
  ELSE LowerChar(CharAt(s, 1)) \o LowerCaseChars(SubSeq(s, 2, Len(s)))

\* the lower-case form of the strings of ModelStrings, computed once
LowerCaseOf == [s \in ModelStrings |-> LowerCaseChars(s)]

\* looked up in the table, computed for any other string
LowerCaseIn(table, s) == IF s \in DOMAIN table THEN table[s] ELSE LowerCaseChars(s)

toLowerCase(s) == LowerCaseIn(LowerCaseOf, s)

RECURSIVE trimStart(_)
trimStart(s) ==
  IF Len(s) > 0 /\ IsWhitespace(CharAt(s, 1))
    THEN trimStart(SubSeq(s, 2, Len(s)))
    ELSE s

RECURSIVE trimEnd(_)
trimEnd(s) ==
  IF Len(s) > 0 /\ IsWhitespace(CharAt(s, Len(s)))
    THEN trimEnd(SubSeq(s, 1, Len(s) - 1))
    ELSE s

trim(s) == trimEnd(trimStart(s))

includes(s, pat) ==
  \E i \in 1..(Len(s) - Len(pat) + 1) : SubSeq(s, i, i + Len(pat) - 1) = pat

\* s.replace(/\s+/g, '-'): every maximal run of whitespace becomes one '-'
RECURSIVE replaceWhitespace(_)
replaceWhitespace(s) ==
  IF Len(s) = 0 THEN ""
  ELSE IF IsWhitespace(CharAt(s, 1))
    THEN "-" \o replaceWhitespace(trimStart(s))
    ELSE CharAt(s, 1) \o replaceWhitespace(SubSeq(s, 2, Len(s)))

\* the normalized form of the strings of ModelStrings, computed once
NormalizedOf == [s \in ModelStrings |-> trim(LowerCaseChars(s))]

\* looked up in the table, computed for any other name
NormalizeIn(table, name) ==
  IF name \in DOMAIN table THEN table[name] ELSE trim(LowerCaseChars(name))

\* part_008:223-225
normalizeSkillName(name) == NormalizeIn(NormalizedOf, name)

-----------------------------------------------------------------------------
(* Static rule table and pattern matcher *)

None == [none |-> TRUE]

\* part_008:523-543 (analyzedAt, a wall-clock timestamp, is not modelled)
createSkillDependency(skillName, dependencies, description, difficulty, estimatedHours, enables, category) ==
  [skillName |-> skillName, dependencies |-> dependencies,
   description |-> description, difficulty |-> difficulty,
   estimatedHours |-> estimatedHours, enables |-> enables,
   category |-> category, source |-> "algorithmic"]

\* one `if (...)` of getAlgorithmicDependencies: some pattern of `any` occurs
\* in the normalized name and no pattern of `none` does
RuleMatches(rule, normalized) ==
  /\ \E p \in rule.any : includes(normalized, p)
  /\ \A p \in rule.none : ~includes(normalized, p)

\* part_008:399-520, the chain of if statements: the index of the first rule
\* whose condition holds, 0 when none does
FirstMatchingIn(rules, normalized) ==
  IF \E i \in 1..Len(rules) : RuleMatches(rules[i], normalized)
    THEN CHOOSE i \in 1..Len(rules) :
           /\ RuleMatches(rules[i], normalized)
           /\ \A j \in 1..(i - 1) : ~RuleMatches(rules[j], normalized)
    ELSE 0

FirstMatchingRule(normalized) == FirstMatchingIn(AlgorithmicRules, normalized)

\* the rule of every normalized input name, computed once
NormalForms(table) == {table[s] : s \in DOMAIN table}

FirstMatchingRuleOf == [n \in NormalForms(NormalizedOf) |-> FirstMatchingRule(n)]

\* the first rule that matches a normalized name, looked up or computed
FirstMatchingRuleIn(table, normalized) ==
  IF normalized \in DOMAIN table THEN table[normalized] ELSE FirstMatchingRule(normalized)

FirstMatchingRuleFor(normalized) == FirstMatchingRuleIn(FirstMatchingRuleOf, normalized)

\* part_008:399-520, the return statement of a rule
RecordOfRule(skillName, r) ==
  createSkillDependency(skillName, r.dependencies, r.description, r.difficulty,
                        r.estimatedHours, r.enables, r.category)

\* part_008:519, return null, when no rule matched
RecordOfFirstRule(skillName, first) ==
  IF first = 0 THEN None ELSE RecordOfRule(skillName, AlgorithmicRules[first])

\* part_008:399-520: the first rule that matches wins, null when none does
getAlgorithmicDependencies(skillName) ==
  RecordOfFirstRule(skillName, FirstMatchingRuleFor(normalizeSkillName(skillName)))

InStaticTable(skillName) ==
  \E i \in 1..Len(SKILL_DEPENDENCIES) :
    normalizeSkillName(SKILL_DEPENDENCIES[i].skillName) = normalizeSkillName(skillName)

-----------------------------------------------------------------------------
(* JSON values as the endpoint sees them after JSON.parse *)

Undefined == [t |-> "undefined"]
JNull == [t |-> "null"]
Num(n) == [t |-> "number", num |-> n]
Str(s) == [t |-> "string", str |-> s]
Arr(a) == [t |-> "array", arr |-> a]
Obj(o) == [t |-> "object", obj |-> o]

\* property read `analysis.f`: undefined on anything that is not an object
\* holding f (null is handled by the caller: reading a property of null throws)
Field(v, f) ==
  IF v.t = "object" /\ f \in DOMAIN v.obj THEN v.obj[f] ELSE Undefined

\* In a list of names (dependencies, enables) every entry is written as the
\* string it is; an entry that is no string, the number 7, is written as this
\* word, which is no name of the model.  Calling toLowerCase on it throws a
\* TypeError.
Seven == "#7"
IsNotString(entry) == entry = Seven

Max(a, b) == IF a >= b THEN a ELSE b
Min(a, b) == IF a <= b THEN a ELSE b

-----------------------------------------------------------------------------
(* The analysis endpoint, route.ts POST, for a request that carries a       *)
(* custom prompt (the only kind analyzeSkillWithLLM of part_008 sends).     *)
(*                                                                         *)
(* What the upstream text-generation service does is an input:             *)
(*   [kind |-> "network_error"]          fetch rejects                     *)
(*   [kind |-> "status", status |-> n]   completion.ok is false            *)
(*   [kind |-> "ok", content |-> c]      choices[0].message.content is c   *)
(* and c is a class of content text together with what it parses to:       *)
(*   "empty"         '' or no choices[0]                                   *)
(*   "prose"         no braces, not JSON           ("not json at all")     *)
(*   "prose_braces"  first '{' .. last '}' is not JSON                     *)
(*   "object"        one JSON object, optionally inside brace-free prose   *)
(*   "bare"          brace-free JSON text: a number, a string, null, ...   *)
(***************************************************************************)

ErrorBody == [error |-> "Failed to analyze skill prerequisites"]

\* route.ts:64-72: /\{[\s\S]*\}/ then JSON.parse of the match, else of the text
ParseContent(content) ==
  CASE content.shape = "object" -> [ok |-> TRUE, value |-> content.value]
    [] content.shape = "bare" -> [ok |-> TRUE, value |-> content.value]
    [] OTHER -> [ok |-> FALSE]

\* the validation with the numbers passed through unclamped
validatedAnalysis_NoClamp(analysis, skillName) ==
  LET dep == Field(analysis, "dependencies")
      des == Field(analysis, "description")
      dif == Field(analysis, "difficulty")
      hrs == Field(analysis, "estimatedHours")
      ena == Field(analysis, "enables")
      cat == Field(analysis, "category")
  IN [dependencies |-> IF dep.t = "array" THEN dep.arr ELSE <<>>,
      description |-> IF des.t = "string" THEN des.str
                      ELSE "Analysis for " \o skillName,
      difficulty |-> IF dif.t = "number" THEN dif.num ELSE 5,
      estimatedHours |-> IF hrs.t = "number" THEN hrs.num ELSE 20,
      enables |-> IF ena.t = "array" THEN ena.arr ELSE <<>>,
      category |-> IF cat.t = "string" THEN cat.str ELSE "general"]

\* route.ts:96-103
validatedAnalysis(analysis, skillName) ==
  LET dep == Field(analysis, "dependencies")
      des == Field(analysis, "description")
      dif == Field(analysis, "difficulty")
      hrs == Field(analysis, "estimatedHours")
      ena == Field(analysis, "enables")
      cat == Field(analysis, "category")
  IN [dependencies |-> IF dep.t = "array" THEN dep.arr ELSE <<>>,
      description |-> IF des.t = "string" THEN des.str
                      ELSE "Analysis for " \o skillName,
      difficulty |-> IF dif.t = "number" THEN Max(1, Min(10, dif.num)) ELSE 5,
      estimatedHours |-> IF hrs.t = "number" THEN Max(1, hrs.num) ELSE 20,
      enables |-> IF ena.t = "array" THEN ena.arr ELSE <<>>,
      category |-> IF cat.t = "string" THEN cat.str ELSE "general"]

\* route.ts:11-125 with `prompt` present
POST(skillName, upstream) ==
  IF skillName = ""
    THEN [status |-> 400, body |-> [error |-> "Missing skillName"]]
  ELSE IF upstream.kind # "ok"
    THEN [status |-> 500, body |-> ErrorBody]          \* :29 rejects, :52-54
  ELSE IF upstream.content.shape = "empty"
    THEN [status |-> 500, body |-> ErrorBody]          \* :59-61
  ELSE LET parsed == ParseContent(upstream.content)
       IN IF ~parsed.ok
            THEN [status |-> 500, body |-> ErrorBody]  \* :73-78
          ELSE IF parsed.value.t = "null"
            THEN [status |-> 500, body |-> ErrorBody]  \* :97 throws TypeError
          ELSE [status |-> 200,
                body |-> validatedAnalysis(parsed.value, skillName)]

-----------------------------------------------------------------------------
(* Remote inference and the resolver, part_008 *)

\* a fallback with other numbers than the documented ones
FallbackRecord_OtherDefaults(skillName) ==
  [skillName |-> skillName, dependencies |-> <<>>,
   description |-> skillName \o " is a professional skill",
   difficulty |-> 1, estimatedHours |-> 10, enables |-> <<>>,
   category |-> "general", source |-> "llm"]

\* part_008:373-383
FallbackRecord(skillName) ==
  [skillName |-> skillName, dependencies |-> <<>>,
   description |-> skillName \o " is a professional skill",
   difficulty |-> 5, estimatedHours |-> 20, enables |-> <<>>,
   category |-> "general", source |-> "llm"]

\* part_008:356-366, the record built from the analysis the endpoint returned
RecordFromAnalysis(skillName, analysis) ==
  [skillName |-> skillName,
   dependencies |-> analysis.dependencies,
   description |-> IF analysis.description = ""
                     THEN "Analysis for " \o skillName
                     ELSE analysis.description,
   difficulty |-> IF analysis.difficulty = 0 THEN 5 ELSE analysis.difficulty,
   estimatedHours |-> IF analysis.estimatedHours = 0 THEN 20
                      ELSE analysis.estimatedHours,
   enables |-> analysis.enables,
   category |-> IF analysis.category = "" THEN "general" ELSE analysis.category,
   source |-> "llm"]

\* part_008:350-368: a response that is not ok throws into the catch
RecordFromResponse(skillName, response) ==
  IF response.status # 200
    THEN FallbackRecord(skillName)
    ELSE RecordFromAnalysis(skillName, response.body)

\* part_008:311-385.  env says whether the endpoint can be reached from the
\* caller and, if so, what the upstream service does.
analyzeSkillWithLLM(skillName, env) ==
  IF ~env.reachable THEN FallbackRecord(skillName)        \* fetch rejects
  ELSE RecordFromResponse(skillName, POST(skillName, env.upstream))

\* part_008:388-391
getCachedSkillAnalysis(cache, skillName) ==
  LET normalizedName == normalizeSkillName(skillName)
  IN IF normalizedName \in DOMAIN cache THEN cache[normalizedName] ELSE None

\* a cache keyed by the name as it was spelled
cacheSkillAnalysis_AsSpelled(cache, skillName, analysis) ==
  [k \in DOMAIN cache \cup {skillName} |->
     IF k = skillName THEN analysis ELSE cache[k]]

\* part_008:393-396: Map.set, which replaces an existing entry
cacheSkillAnalysis(cache, skillName, analysis) ==
  LET normalizedName == normalizeSkillName(skillName)
  IN [k \in DOMAIN cache \cup {normalizedName} |->
        IF k = normalizedName THEN analysis ELSE cache[k]]

\* a resolver that goes from the pattern matcher straight to inference
LocalResolution_NoCache(cache, skillName) ==
  getAlgorithmicDependencies(skillName)

\* part_008:549-557, given what the pattern matcher and the cache returned
FirstLocal(algorithmicResult, cachedAnalysis) ==
  IF algorithmicResult # None THEN algorithmicResult
  ELSE IF cachedAnalysis # None
    THEN [cachedAnalysis EXCEPT !.source = "cache"]
  ELSE None

\* a resolver that asks the cache only
LocalResolution_CacheOnly(cache, skillName) ==
  FirstLocal(None, getCachedSkillAnalysis(cache, skillName))

\* part_008:547-557: the two sources that need no request, pattern matcher
\* first, then the cache (whose record is re-tagged 'cache')
LocalResolution(cache, skillName) ==
  FirstLocal(getAlgorithmicDependencies(skillName),
             getCachedSkillAnalysis(cache, skillName))

\* part_008:559-563
ResolveByInference(cache, skillName, llmAnalysis) ==
  [result |-> llmAnalysis,
   cache |-> cacheSkillAnalysis(cache, skillName, llmAnalysis),
   sent |-> TRUE]

\* A caller of getSkillDependencies is an async function: it runs until a
\* request is sent and goes on when the answer has come, and between the two
\* everything else may happen.  What such a caller has done is computed from
\* what it was called with and the answers that have come so far, each with
\* the cache it found when it came.

\* the answer to a request that has not come yet
Pending == [pending |-> TRUE]

\* the outcome env of a request, and the cache as it was when the answer came
Answered(env, seen) == [env |-> env, seen |-> seen]

\* where a caller stands that has sent the request for skillName and waits:
\* the cache as it left it; nothing that follows the await has happened
Waiting(cache, skillName) == [waiting |-> TRUE, cache |-> cache, name |-> skillName]

IsWaiting(cache) == "waiting" \in DOMAIN cache

\* the rest of a caller that waits has not happened: it is given a record
\* that lists nothing, and what it makes of it is never looked at
NotYet(cache, skillName) ==
  [result |-> FallbackRecord(skillName), cache |-> cache, sent |-> FALSE]

\* part_008:547-563, local being what the pattern matcher and the cache gave:
\* the request is sent at :351 and, once answered, the record is written into
\* the cache as it is then (:561)
ResolveFrom(cache, skillName, local, answer) ==
  IF local # None
    THEN [result |-> local, cache |-> cache, sent |-> FALSE]
  ELSE IF answer = Pending
    THEN [result |-> FallbackRecord(skillName), cache |-> Waiting(cache, skillName),
          sent |-> TRUE]
  ELSE ResolveByInference(answer.seen, skillName,
                          analyzeSkillWithLLM(skillName, answer.env))

\* part_008:546-564 inside a caller: the record returned, the cache
\* afterwards, and whether a request was sent; answer is what is known of the
\* outcome of the request for this name
getSkillDependencies(cache, skillName, answer) ==
  IF IsWaiting(cache) THEN NotYet(cache, skillName)
  ELSE ResolveFrom(cache, skillName, LocalResolution(cache, skillName), answer)

-----------------------------------------------------------------------------
(* The consistency checker, part_008 *)

\* part_008:229-241: the first skill whose normalized name equals the
\* normalized target
hasSkill(skillList, targetSkillName) ==
  LET normalizedTarget == normalizeSkillName(targetSkillName)
      found == {i \in 1..Len(skillList) :
                  normalizeSkillName(skillList[i].name) = normalizedTarget}
  IN IF found = {} THEN [exists |-> FALSE]
     ELSE [exists |-> TRUE,
           skill |-> skillList[CHOOSE i \in found : \A j \in found : i <= j]]

\* part_008:244-246
hasMeaningfulProficiency(proficiency) ==
  proficiency \in {"Learning", "Proficient", "Mastered"}

\* part_008:597 and :607, the id template
WarningId(skill, kind, dependency) ==
  skill.id \o "-" \o kind \o "-" \o replaceWhitespace(toLowerCase(dependency))

\* part_008:596-603
MissingDependencyWarning(skill, dependency) ==
  [id |-> WarningId(skill, "missing", dependency),
   type |-> "missing_dependency",
   skillName |-> skill.name,
   message |-> "You know " \o skill.name \o " but don't have " \o dependency
               \o " in your skills",
   suggestion |-> "Consider adding " \o dependency
                  \o " to your skill tree as it's foundational for " \o skill.name,
   severity |-> "medium"]

\* part_008:606-613
ProficiencyMismatchWarning(skill, dependency) ==
  [id |-> WarningId(skill, "proficiency", dependency),
   type |-> "proficiency_mismatch",
   skillName |-> skill.name,
   message |-> "You're " \o toLowerCase(skill.proficiency) \o " in " \o skill.name
               \o " but only want to learn " \o dependency,
   suggestion |-> "Consider updating your " \o dependency
                  \o " proficiency since it's foundational for " \o skill.name,
   severity |-> "low"]

\* a catch that leaves the caller without the warnings found so far
CatchInCheck_LosesWarnings(acc) == [warnings |-> <<>>, origins |-> <<>>]

\* part_008:616-619, the catch around the work on one skill: hasSkill threw
\* on a dependency (part_008:225 on an entry that is no string); the
\* warnings pushed so far stay, the other dependencies of the skill are
\* skipped, and the loop goes on with the next skill
CatchInCheck(acc) == acc

\* part_008:591-615, the inner loop from dependency j on.  acc holds the
\* warnings pushed so far and, beside each, where it came from: the index of
\* the skill and the index of the dependency (bookkeeping for the properties).
RECURSIVE CheckDependencies(_, _, _, _, _)
CheckDependencies(skillList, i, dependencies, j, acc) ==
  IF j > Len(dependencies) THEN acc
  ELSE IF IsNotString(dependencies[j]) THEN CatchInCheck(acc)
  ELSE LET dependency == dependencies[j]
           h == hasSkill(skillList, dependency)
           next ==
             IF ~h.exists
               THEN [warnings |-> Append(acc.warnings,
                                   MissingDependencyWarning(skillList[i], dependency)),
                     origins |-> Append(acc.origins, <<i, j>>)]
             ELSE IF ~hasMeaningfulProficiency(h.skill.proficiency)
               THEN [warnings |-> Append(acc.warnings,
                                   ProficiencyMismatchWarning(skillList[i], dependency)),
                     origins |-> Append(acc.origins, <<i, j>>)]
             ELSE acc
       IN CheckDependencies(skillList, i, dependencies, j + 1, next)

\* what is known of the request for skillName: oracle holds the answers
\* that have come, by normalized name (a caller asks for a name once: the
\* answer is in the cache from then on)
EnvFor(oracle, skillName) ==
  IF normalizeSkillName(skillName) \in DOMAIN oracle
    THEN oracle[normalizeSkillName(skillName)]
    ELSE Pending

\* part_006:40-44, skillNames being the lowercased names of the collection
hasPrerequisite(skillNames, dependency) ==
  \E k \in 1..Len(skillNames) :
    \/ skillNames[k] = toLowerCase(dependency)
    \/ includes(skillNames[k], toLowerCase(dependency))
    \/ includes(toLowerCase(dependency), skillNames[k])

\* part_006:166-173, the keywords of each category in the order of the object
categoryKeywords ==
  << [category |-> "programming",
      keywords |-> {"javascript", "python", "java", "go", "rust", "typescript",
                    "c++", "c#"}],
     [category |-> "infrastructure",
      keywords |-> {"linux", "networking", "virtualization", "cloud", "vm"}],
     [category |-> "devops",
      keywords |-> {"docker", "kubernetes", "ci/cd", "ansible", "terraform",
                    "jenkins"}],
     [category |-> "database",
      keywords |-> {"sql", "postgresql", "mongodb", "redis", "database"}],
     [category |-> "security",
      keywords |-> {"oauth", "jwt", "authentication", "encryption", "security"}],
     [category |-> "networking",
      keywords |-> {"http", "https", "tcp", "networking", "dns", "load balancing"}] >>

\* the categoryKeywords one of whose keywords skillLower contains
CategoriesOf(skillLower) ==
  {c \in 1..Len(categoryKeywords) :
     \E keyword \in categoryKeywords[c].keywords : includes(skillLower, keyword)}

\* part_006:163-182
getCategoryForSkill(skillName) ==
  IF CategoriesOf(toLowerCase(skillName)) = {} THEN "other"
  ELSE categoryKeywords[CHOOSE c \in CategoriesOf(toLowerCase(skillName)) :
                    \A q \in CategoriesOf(toLowerCase(skillName)) : c <= q].category

\* part_006:47-55, the entry pushed for a dependency the collection lacks
MissingSkillRecord(skill, dependency, dependencyData) ==
  [id |-> "llm-" \o skill.id \o "-" \o replaceWhitespace(toLowerCase(dependency)),
   name |-> dependency,
   reason |-> "Required for " \o skill.name \o " - " \o dependencyData.description,
   confidence |-> "medium",
   source |-> "llm",
   parentSkill |-> skill.name,
   category |-> IF dependencyData.category # "" THEN dependencyData.category
                ELSE getCategoryForSkill(dependency)]

\* part_006:39-57, the inner loop from dependency j on; on an entry that is
\* no string toLowerCase throws into the catch (part_006:58-61): the entries
\* pushed so far stay and the loop over the skills goes on
RECURSIVE DiscoverDependencies(_, _, _, _, _)
DiscoverDependencies(skillNames, skill, dependencyData, j, missingSkills) ==
  IF j > Len(dependencyData.dependencies) THEN missingSkills
  ELSE IF IsNotString(dependencyData.dependencies[j]) THEN missingSkills
  ELSE DiscoverDependencies(skillNames, skill, dependencyData, j + 1,
         IF hasPrerequisite(skillNames, dependencyData.dependencies[j])
           THEN missingSkills
           ELSE Append(missingSkills,
                       MissingSkillRecord(skill, dependencyData.dependencies[j],
                                          dependencyData)))

\* part_006:27, the lowercased names of the collection
LowerCaseNames(skillList) == [i \in 1..Len(skillList) |-> toLowerCase(skillList[i].name)]

\* part_006:35-57 for skill i, r being its resolution
AfterDiscovered(skillList, i, st, r) ==
  [missingSkills |-> DiscoverDependencies(LowerCaseNames(skillList), skillList[i],
                                          r.result, 1, st.missingSkills),
   cache |-> r.cache,
   requests |-> st.requests + (IF r.sent THEN 1 ELSE 0)]

\* part_006:30-62, the loop over the skills from position i on
RECURSIVE DiscoverSkills(_, _, _, _)
DiscoverSkills(skillList, i, st, oracle) ==
  IF i > Len(skillList) \/ IsWaiting(st.cache) THEN st
  ELSE IF skillList[i].proficiency = "Want to Learn"
    THEN DiscoverSkills(skillList, i + 1, st, oracle)
  ELSE DiscoverSkills(skillList, i + 1,
                      AfterDiscovered(skillList, i, st,
                                      getSkillDependencies(st.cache, skillList[i].name,
                                                           EnvFor(oracle, skillList[i].name))),
                      oracle)

\* part_006:141-151, the first entry of each lowercased and trimmed name
RECURSIVE UniqueMissingSkills(_, _, _)
UniqueMissingSkills(missingSkills, i, unique) ==
  IF i > Len(missingSkills) THEN unique
  ELSE UniqueMissingSkills(missingSkills, i + 1,
         IF \E k \in 1..Len(unique) :
              trim(toLowerCase(unique[k].name)) = trim(toLowerCase(missingSkills[i].name))
           THEN unique
           ELSE Append(unique, missingSkills[i]))

\* part_006:153-158, the stable sort by confidence, high before medium before low
SortByConfidence(unique) ==
  LET High(skill) == skill.confidence = "high"
      Medium(skill) == skill.confidence = "medium"
      Low(skill) == skill.confidence = "low"
  IN SelectSeq(unique, High) \o SelectSeq(unique, Medium) \o SelectSeq(unique, Low)

\* part_006:140-159
removeDuplicateMissingSkills(missingSkills) ==
  SortByConfidence(UniqueMissingSkills(missingSkills, 1, <<>>))

\* part_006:64, the list returned once the loop is through
DiscoveryReturns(st) ==
  [missingSkills |-> removeDuplicateMissingSkills(st.missingSkills),
   cache |-> st.cache, requests |-> st.requests]

\* part_006:24-65 as far as it has come: cache is the cache at the call and
\* oracle holds the answers that have come since
discoverMissingSkillsFromLLM(skillList, cache, oracle) ==
  DiscoveryReturns(DiscoverSkills(skillList, 1,
                                  [missingSkills |-> <<>>, cache |-> cache,
                                   requests |-> 0],
                                  oracle))

\* part_006:116-128; the loop catches what the work on a skill throws, so
\* the catch of this function gets nothing
discoverMissingSkillsEnhanced(skillList, cache, oracle) ==
  discoverMissingSkillsFromLLM(skillList, cache, oracle)

\* part_008:591-615 done for skill i: the warnings pushed, beside what the
\* resolution r of the skill did to the cache
AfterDependencies(st, r, acc) ==
  [warnings |-> acc.warnings,
   origins |-> acc.origins,
   cache |-> r.cache,
   resolved |-> Append(st.resolved, r.result),
   requests |-> st.requests + (IF r.sent THEN 1 ELSE 0)]

\* part_008:584-615, the body of the loop once skill i is resolved to r
CheckResolved(skillList, i, st, r) ==
  AfterDependencies(st, r,
    CheckDependencies(skillList, i, r.result.dependencies, 1,
                      [warnings |-> st.warnings, origins |-> st.origins]))

\* part_008:576-620, the outer loop from skill i on.  st carries the warnings
\* (with their origins), the cache, the record resolved for each skill (None
\* for a skill that is skipped) and the number of requests sent.
RECURSIVE CheckSkills(_, _, _, _)
CheckSkills(skillList, i, st, oracle) ==
  IF i > Len(skillList) \/ IsWaiting(st.cache) THEN st
  ELSE IF ~hasMeaningfulProficiency(skillList[i].proficiency)
    THEN CheckSkills(skillList, i + 1,
                     [st EXCEPT !.resolved = Append(@, None)], oracle)
  ELSE CheckSkills(skillList, i + 1,
                   CheckResolved(skillList, i, st,
                                 getSkillDependencies(st.cache, skillList[i].name,
                                                      EnvFor(oracle, skillList[i].name))),
                   oracle)

\* part_008:567-623 as far as it has come: cache is the cache at the call and
\* oracle holds the answers that have come since.  The cache of the outcome
\* says whether the check waits for a further answer or has returned.
validateSkillConsistencyEnhanced(skillList, cache, oracle) ==
  CheckSkills(skillList, 1,
              [warnings |-> <<>>, origins |-> <<>>, cache |-> cache,
               resolved |-> <<>>, requests |-> 0],
              oracle)

\* part_008:261-263
FindStaticRule(skillName) ==
  LET rules == {r \in 1..Len(SKILL_DEPENDENCIES) :
                  normalizeSkillName(SKILL_DEPENDENCIES[r].skillName)
                    = normalizeSkillName(skillName)}
  IN IF rules = {} THEN None
     ELSE SKILL_DEPENDENCIES[CHOOSE r \in rules : \A q \in rules : r <= q]

\* part_008:249-298, from skill i on: the check against the static table
RECURSIVE StaticCheckSkills(_, _, _)
StaticCheckSkills(skillList, i, acc) ==
  IF i > Len(skillList) THEN acc
  ELSE IF ~hasMeaningfulProficiency(skillList[i].proficiency)
    THEN StaticCheckSkills(skillList, i + 1, acc)
  ELSE LET dependencyRule == FindStaticRule(skillList[i].name)
       IN IF dependencyRule = None
            THEN StaticCheckSkills(skillList, i + 1, acc)
            ELSE StaticCheckSkills(skillList, i + 1,
                   CheckDependencies(skillList, i, dependencyRule.dependencies, 1, acc))

\* part_008:249-298
validateSkillConsistency(skillList) ==
  StaticCheckSkills(skillList, 1, [warnings |-> <<>>, origins |-> <<>>]).warnings

\* part_008:301-308
getSkillWarnings(skillList, skillId) ==
  LET allWarnings == validateSkillConsistency(skillList)
      target == {i \in 1..Len(skillList) : skillList[i].id = skillId}
  IN IF target = {} THEN <<>>
     ELSE LET targetSkill == skillList[CHOOSE i \in target : \A j \in target : i <= j]
              Keep(warning) == warning.skillName = targetSkill.name
          IN SelectSeq(allWarnings, Keep)

-----------------------------------------------------------------------------
(* The flat skill store, store.ts:1-161 *)

ProficiencyLevels == {"Want to Learn", "Learning", "Proficient", "Mastered"}

\* an optional field (checklist?, teachingEvaluations?) that is not set / set
NotSet == [defined |-> FALSE]
Set(v) == [defined |-> TRUE, value |-> v]

\* store.ts:52-54: the n-th id handed out.  Math.random() is taken to give
\* a new id every time.
generateId(n) == "id" \o ToString(n)

\* an add that looks for the very same spelling only
FindDuplicate_ExactCase(skillList, name) ==
  {i \in 1..Len(skillList) : skillList[i].name = name}

\* store.ts:60-62
FindDuplicate(skillList, name) ==
  {i \in 1..Len(skillList) : toLowerCase(skillList[i].name) = toLowerCase(name)}

\* store.ts:56-75; skillData is [name |-> ..] or [name |-> .., proficiency |-> ..]
addSkillToTree(skillList, skillData, id) ==
  LET name == skillData.name
      proficiency == IF "proficiency" \in DOMAIN skillData
                       THEN skillData.proficiency ELSE "Want to Learn"
  IN IF FindDuplicate(skillList, name) # {} THEN skillList
     ELSE Append(skillList, [id |-> id, name |-> name, proficiency |-> proficiency,
                             checklist |-> NotSet, teachingEvaluations |-> NotSet])

\* store.ts:77-84
updateSkillProficiencyInTree(skillList, id, proficiency) ==
  [i \in 1..Len(skillList) |->
     IF skillList[i].id = id THEN [skillList[i] EXCEPT !.proficiency = proficiency]
     ELSE skillList[i]]

\* store.ts:86-88
removeSkillFromTree(skillList, id) ==
  LET Keep(skill) == skill.id # id
  IN SelectSeq(skillList, Keep)

\* store.ts:90-102
toggleChecklistItemInTree(skillList, skillId, itemId) ==
  [i \in 1..Len(skillList) |->
     IF skillList[i].id = skillId /\ skillList[i].checklist.defined
       THEN LET items == skillList[i].checklist.value
            IN [skillList[i] EXCEPT !.checklist =
                  Set([k \in 1..Len(items) |->
                         IF items[k].id = itemId
                           THEN [items[k] EXCEPT !.completed = ~@]
                           ELSE items[k]])]
       ELSE skillList[i]]

\* store.ts:104-111
initializeChecklistInTree(skillList, skillId, items) ==
  [i \in 1..Len(skillList) |->
     IF skillList[i].id = skillId THEN [skillList[i] EXCEPT !.checklist = Set(items)]
     ELSE skillList[i]]

\* store.ts:113-123
addTeachingEvaluationToTree(skillList, skillId, evaluation) ==
  [i \in 1..Len(skillList) |->
     IF skillList[i].id = skillId
       THEN [skillList[i] EXCEPT !.teachingEvaluations =
               Set(Append(IF @.defined THEN @.value ELSE <<>>, evaluation))]
       ELSE skillList[i]]

\* ids handed out in one behaviour
MaxIds == MaxStoreSkills + 1

AllIds == {generateId(n) : n \in 1..MaxIds}

\* the checks remembered are those of the collection as it is now
Forget ==
  /\ lastCheck' = IF "pending" \in DOMAIN lastCheck THEN lastCheck ELSE [ran |-> FALSE]
  /\ prevCheck' = IF "pending" \in DOMAIN prevCheck THEN prevCheck ELSE [ran |-> FALSE]
  /\ lastQuery' = [asked |-> FALSE]
  /\ lastRecommend' = IF "pending" \in DOMAIN lastRecommend THEN lastRecommend
                      ELSE [ran |-> FALSE, nth |-> lastRecommend.nth]
  /\ UNCHANGED <<walk, lastResponse, discovery, learningPath>>

\* store.ts:140-142, what addSkill does to the store
AddSkillStep(skillData, cap) ==
  /\ \/ FindDuplicate(skills, skillData.name) # {}
     \/ Len(skills) < cap /\ nextId < cap + 1
  /\ skills' = addSkillToTree(skills, skillData, generateId(nextId + 1))
  /\ nextId' = IF FindDuplicate(skills, skillData.name) # {} THEN nextId ELSE nextId + 1
  /\ UNCHANGED <<treeSkills, treeNextId, skillAnalysisCache, calls>>

\* store.ts:140-142
addSkill(skillData, cap) ==
  /\ AddSkillStep(skillData, cap)
  /\ lastOp' = [op |-> "addSkill", name |-> skillData.name]
  /\ Forget

\* store.ts:143-145, what updateSkillProficiency does to the store
UpdateSkillProficiencyStep(id, proficiency) ==
  /\ skills' = updateSkillProficiencyInTree(skills, id, proficiency)
  /\ UNCHANGED <<nextId, treeSkills, treeNextId, skillAnalysisCache, calls>>

\* store.ts:143-145
updateSkillProficiency(id, proficiency) ==
  /\ UpdateSkillProficiencyStep(id, proficiency)
  /\ lastOp' = [op |-> "other"]
  /\ Forget

\* store.ts:146-148, what removeSkill does to the store
RemoveSkillStep(id) ==
  /\ skills' = removeSkillFromTree(skills, id)
  /\ UNCHANGED <<nextId, treeSkills, treeNextId, skillAnalysisCache, calls>>

\* store.ts:146-148
removeSkill(id) ==
  /\ RemoveSkillStep(id)
  /\ lastOp' = [op |-> "other"]
  /\ Forget

\* store.ts:152-154
toggleChecklistItem(skillId, itemId) ==
  /\ skills' = toggleChecklistItemInTree(skills, skillId, itemId)
  /\ lastOp' = [op |-> "other"]
  /\ Forget
  /\ UNCHANGED <<nextId, treeSkills, treeNextId, skillAnalysisCache, calls>>

\* store.ts:155-157
initializeChecklist(skillId, items) ==
  /\ skills' = initializeChecklistInTree(skills, skillId, items)
  /\ lastOp' = [op |-> "other"]
  /\ Forget
  /\ UNCHANGED <<nextId, treeSkills, treeNextId, skillAnalysisCache, calls>>

\* store.ts:158-160
addTeachingEvaluation(skillId, evaluation) ==
  /\ \A i \in 1..Len(skills) :
       skills[i].id = skillId /\ skills[i].teachingEvaluations.defined
         => Len(skills[i].teachingEvaluations.value) < MaxEvals
  /\ skills' = addTeachingEvaluationToTree(skills, skillId, evaluation)
  /\ lastOp' = [op |-> "other"]
  /\ Forget
  /\ UNCHANGED <<nextId, treeSkills, treeNextId, skillAnalysisCache, calls>>

-----------------------------------------------------------------------------
(* Inputs: what the upstream service and the network can do *)

AnalysisObject(dep, des, dif, hrs, ena, cat) ==
  Obj([dependencies |-> dep, description |-> des, difficulty |-> dif,
       estimatedHours |-> hrs, enables |-> ena, category |-> cat])

\* a well-formed answer
O_typical ==
  AnalysisObject(Arr(<<"Version Control", "docker">>), Str("needs the basics"),
                 Num(7), Num(30), Arr(<<"Baking">>), Str("culinary"))
\* numbers above the scale and below the minimum
O_high ==
  AnalysisObject(Arr(<<"Docker", "Docker">>), Str(""), Num(15), Num(0),
                 Arr(<<>>), Str(""))
\* negative numbers
O_negative ==
  AnalysisObject(Arr(<<"Linux">>), Undefined, Num(-3), Num(-5), Undefined, Undefined)
\* an answer whose enabled skills meet the heuristics' suggestions
O_cook ==
  AnalysisObject(Arr(<<"Version Control">>), Str("cooks"), Num(3), Num(10),
                 Arr(<<"testing", "Redux">>), Str("frontend"))
\* lists that hold a number between the names
O_mixed ==
  AnalysisObject(Arr(<<"Docker", Seven, "Linux">>), Str("mixed"), Num(4), Num(12),
                 Arr(<<"Baking", Seven, "Redux">>), Str("frontend"))
\* every field of the wrong type
O_wrongTypes ==
  AnalysisObject(Str("Docker"), Num(1), Str("hard"), JNull, Num(0), Arr(<<>>))
\* {}
O_empty == Obj([x \in {} |-> Undefined])

Contents ==
  { [shape |-> "empty"], [shape |-> "prose"], [shape |-> "prose_braces"],
    [shape |-> "bare", value |-> Num(7)], [shape |-> "bare", value |-> JNull] }
  \cup { [shape |-> "object", value |-> o] :
           o \in {O_typical, O_high, O_negative, O_wrongTypes, O_empty} }

Upstreams ==
  { [kind |-> "network_error"], [kind |-> "status", status |-> 503] }
  \cup { [kind |-> "ok", content |-> c] : c \in Contents }

Environments ==
  { [reachable |-> FALSE] }
  \cup { [reachable |-> TRUE, upstream |-> u] : u \in Upstreams }


-----------------------------------------------------------------------------
(* Resolver calls that may overlap: getSkillDependencies runs up to its     *)
(* `await fetch` in one step (pattern matcher, cache lookup and the sending *)
(* of the request happen synchronously) and resumes when the response       *)
(* arrives.                                                                 *)

NoCheck == [ran |-> FALSE]
NoOp == [op |-> "none"]
NoWalk == [status |-> "idle", walks |-> 0]
NoDiscovery == [ran |-> FALSE, missingSkills |-> <<>>]
NoLearningPath == <<>>

DoneCalls == {c \in 1..Len(calls) : calls[c].state = "done"}

\* part_008:546-560, a call that starts while fewer than cap calls were made
StartCallUpTo(skillName, cap) ==
  /\ Len(calls) < cap
  /\ LET local == LocalResolution(skillAnalysisCache, skillName)
     IN calls' = Append(calls,
          IF local # None
            THEN [name |-> skillName, state |-> "done", sent |-> FALSE,
                  requests |-> 0,
                  result |-> local, env |-> None, doneBefore |-> DoneCalls]
            ELSE [name |-> skillName, state |-> "pending", sent |-> TRUE,
                  requests |-> 1,
                  result |-> None, env |-> None, doneBefore |-> DoneCalls])
  /\ UNCHANGED <<skills, nextId, treeSkills, treeNextId, skillAnalysisCache,
                 lastCheck, prevCheck, lastQuery, lastOp, lastRecommend, walk,
                 lastResponse, discovery, learningPath>>

StartCall(skillName) == StartCallUpTo(skillName, MaxCalls)

\* a call that sends its request once more when the first one failed
AfterResponse_Retry(call, env) ==
  IF analyzeSkillWithLLM(call.name, env) = FallbackRecord(call.name)
     /\ call.requests < 2
    THEN [call EXCEPT !.requests = @ + 1, !.env = env]
    ELSE [call EXCEPT !.state = "done",
                      !.result = analyzeSkillWithLLM(call.name, env),
                      !.env = env]

\* part_008:350-384 and :560-563, the call when the outcome env of its
\* request arrives: the record is built, or the catch builds the default,
\* and the call returns; no request is sent again
AfterResponse(call, env) ==
  [call EXCEPT !.state = "done",
               !.result = analyzeSkillWithLLM(call.name, env),
               !.env = env]

\* part_008:561, the cache after the call has resumed
CacheAfter(cache, after) ==
  IF after.state = "done"
    THEN cacheSkillAnalysis(cache, after.name, after.result)
    ELSE cache

CompleteCall(c, env) ==
  /\ c \in 1..Len(calls)
  /\ calls[c].state = "pending"
  /\ calls' = [calls EXCEPT ![c] = AfterResponse(calls[c], env)]
  /\ skillAnalysisCache' = CacheAfter(skillAnalysisCache, calls'[c])
  /\ UNCHANGED <<skills, nextId, treeSkills, treeNextId, lastCheck, prevCheck,
                 lastQuery, lastOp, lastRecommend, walk, lastResponse, discovery,
                 learningPath>>

Init ==
  /\ skills = <<>>
  /\ nextId = 0
  /\ treeSkills = <<>>
  /\ treeNextId = 0
  /\ skillAnalysisCache = [k \in {} |-> None]
  /\ calls = <<>>
  /\ lastCheck = NoCheck
  /\ prevCheck = NoCheck
  /\ lastQuery = [asked |-> FALSE]
  /\ lastOp = NoOp
  /\ lastRecommend = [ran |-> FALSE, nth |-> 0]
  /\ walk = NoWalk
  /\ lastResponse = [sent |-> FALSE]
  /\ discovery = NoDiscovery
  /\ learningPath = NoLearningPath

NextResolver ==
  \/ \E n \in ResolveNames : StartCall(n)
  \/ \E c \in 1..MaxCalls, env \in Environments : CompleteCall(c, env)

SpecResolver == Init /\ [][NextResolver]_vars

-----------------------------------------------------------------------------
(* Resolver calls for one name that overlap: three calls, so that a call    *)
(* can start after two overlapping ones have completed.  Every request is    *)
(* answered or fails in the end: fetch settles its promise.                  *)

\* two spellings of one unmatched name, and another unmatched name
OverlapNames == {"Cooking", "cooking ", "Git"}

OverlapEnvironments ==
  { [reachable |-> FALSE] }
  \cup { [reachable |-> TRUE,
          upstream |-> [kind |-> "ok", content |-> [shape |-> "object", value |-> o]]] :
            o \in {O_typical, O_high} }

StartOverlapping == \E n \in OverlapNames : StartCallUpTo(n, MaxOverlapping)

Completions == \E c \in 1..MaxOverlapping, env \in OverlapEnvironments : CompleteCall(c, env)

NextOverlap == StartOverlapping \/ Completions

SpecOverlap == Init /\ [][NextOverlap]_vars

SpecOverlapFair == SpecOverlap /\ WF_vars(Completions)

-----------------------------------------------------------------------------
(* The flat store on its own *)

\* names that are equal ignoring case ("Python", "python") and different ("Docker")
StoreSkillData ==
  { [name |-> n] : n \in StoreNames }
  \cup { [name |-> n, proficiency |-> "Proficient"] : n \in StoreNames }

ChecklistInputs ==
  { <<[id |-> "c1", text |-> "Write a script", completed |-> FALSE]>> }

ChecklistItemIds == {"c1", "c2"}

EvaluationInputs ==
  { [id |-> "e1", topic |-> "Basics", userExplanation |-> "It is a language",
     score |-> [clarity |-> 3, coverage |-> 3, depth |-> 2, misconceptions |-> 4,
                totalScore |-> 12],
     feedback |-> "ok"] }

NextStore ==
  \/ \E d \in StoreSkillData : addSkill(d, MaxStoreSkills)
  \/ \E id \in AllIds, p \in {"Learning"} : updateSkillProficiency(id, p)
  \/ \E id \in AllIds : removeSkill(id)
  \/ \E id \in AllIds, item \in ChecklistItemIds : toggleChecklistItem(id, item)
  \/ \E id \in AllIds, items \in ChecklistInputs : initializeChecklist(id, items)
  \/ \E id \in AllIds, e \in EvaluationInputs : addTeachingEvaluation(id, e)

SpecStore == Init /\ [][NextStore]_vars

-----------------------------------------------------------------------------
(* The tree-shaped skill store, store.ts:162-344.  A skill owns its         *)
(* subSkills; there is no removeSkill.                                      *)

\* `if (!parentId)`: an absent parentId and the empty string are the same
NoParent == ""

NewTreeSkill(id, name, parentId) ==
  [id |-> id, name |-> name, proficiency |-> "Want to Learn", subSkills |-> <<>>,
   parentId |-> parentId, checklist |-> NotSet, teachingEvaluations |-> NotSet]

\* store.ts:228-249, the map over one level and, recursively, the levels below
RECURSIVE AddSubSkill(_, _, _, _)
AddSubSkill(skillList, name, parentId, id) ==
  [i \in 1..Len(skillList) |->
     IF skillList[i].id = parentId
       THEN [skillList[i] EXCEPT !.subSkills =
               Append(@, NewTreeSkill(id, name, parentId))]
     ELSE IF Len(skillList[i].subSkills) > 0
       THEN [skillList[i] EXCEPT !.subSkills = AddSubSkill(@, name, parentId, id)]
     ELSE skillList[i]]

\* store.ts:217-250: no look-up of an existing skill of that name
TreeAddSkillToTree(skillList, name, parentId, id) ==
  IF parentId = NoParent
    THEN Append(skillList, NewTreeSkill(id, name, NoParent))
    ELSE AddSubSkill(skillList, name, parentId, id)

\* store.ts:252-265
RECURSIVE TreeUpdateSkillProficiencyInTree(_, _, _)
TreeUpdateSkillProficiencyInTree(skillList, id, proficiency) ==
  [i \in 1..Len(skillList) |->
     IF skillList[i].id = id
       THEN [skillList[i] EXCEPT !.proficiency = proficiency]
     ELSE IF Len(skillList[i].subSkills) > 0
       THEN [skillList[i] EXCEPT !.subSkills =
               TreeUpdateSkillProficiencyInTree(@, id, proficiency)]
     ELSE skillList[i]]

\* store.ts:267-285
RECURSIVE TreeToggleChecklistItemInTree(_, _, _)
TreeToggleChecklistItemInTree(skillList, skillId, itemId) ==
  [i \in 1..Len(skillList) |->
     IF skillList[i].id = skillId /\ skillList[i].checklist.defined
       THEN LET items == skillList[i].checklist.value
            IN [skillList[i] EXCEPT !.checklist =
                  Set([k \in 1..Len(items) |->
                         IF items[k].id = itemId
                           THEN [items[k] EXCEPT !.completed = ~@]
                           ELSE items[k]])]
     ELSE IF Len(skillList[i].subSkills) > 0
       THEN [skillList[i] EXCEPT !.subSkills =
               TreeToggleChecklistItemInTree(@, skillId, itemId)]
     ELSE skillList[i]]

\* store.ts:287-300
RECURSIVE TreeInitializeChecklistInTree(_, _, _)
TreeInitializeChecklistInTree(skillList, skillId, items) ==
  [i \in 1..Len(skillList) |->
     IF skillList[i].id = skillId
       THEN [skillList[i] EXCEPT !.checklist = Set(items)]
     ELSE IF Len(skillList[i].subSkills) > 0
       THEN [skillList[i] EXCEPT !.subSkills =
               TreeInitializeChecklistInTree(@, skillId, items)]
     ELSE skillList[i]]

\* store.ts:302-318
RECURSIVE TreeAddTeachingEvaluationToTree(_, _, _)
TreeAddTeachingEvaluationToTree(skillList, skillId, evaluation) ==
  [i \in 1..Len(skillList) |->
     IF skillList[i].id = skillId
       THEN [skillList[i] EXCEPT !.teachingEvaluations =
               Set(Append(IF @.defined THEN @.value ELSE <<>>, evaluation))]
     ELSE IF Len(skillList[i].subSkills) > 0
       THEN [skillList[i] EXCEPT !.subSkills =
               TreeAddTeachingEvaluationToTree(@, skillId, evaluation)]
     ELSE skillList[i]]

\* every skill of the tree, parents before their subSkills
RECURSIVE Flatten(_)
Flatten(skillList) ==
  IF Len(skillList) = 0 THEN <<>>
  ELSE <<Head(skillList)>> \o Flatten(Head(skillList).subSkills)
         \o Flatten(Tail(skillList))

UnchangedByTree ==
  UNCHANGED <<skills, nextId, skillAnalysisCache, calls, lastCheck, prevCheck,
              lastQuery, lastRecommend, walk, lastResponse, discovery, learningPath>>

\* store.ts:326-328
TreeAddSkill(name, parentId) ==
  /\ treeNextId < MaxTreeSkills
  /\ treeSkills' = TreeAddSkillToTree(treeSkills, name, parentId,
                                      generateId(treeNextId + 1))
  /\ treeNextId' = treeNextId + 1
  /\ lastOp' = [op |-> "addSkill", name |-> name]
  /\ UnchangedByTree

\* store.ts:329-331
TreeUpdateSkillProficiency(id, proficiency) ==
  /\ treeSkills' = TreeUpdateSkillProficiencyInTree(treeSkills, id, proficiency)
  /\ lastOp' = [op |-> "other"]
  /\ UNCHANGED treeNextId
  /\ UnchangedByTree

\* store.ts:335-337
TreeToggleChecklistItem(skillId, itemId) ==
  /\ treeSkills' = TreeToggleChecklistItemInTree(treeSkills, skillId, itemId)
  /\ lastOp' = [op |-> "other"]
  /\ UNCHANGED treeNextId
  /\ UnchangedByTree

\* store.ts:338-340
TreeInitializeChecklist(skillId, items) ==
  /\ treeSkills' = TreeInitializeChecklistInTree(treeSkills, skillId, items)
  /\ lastOp' = [op |-> "other"]
  /\ UNCHANGED treeNextId
  /\ UnchangedByTree

\* store.ts:341-343
TreeAddTeachingEvaluation(skillId, evaluation) ==
  /\ \A i \in 1..Len(Flatten(treeSkills)) :
       LET skill == Flatten(treeSkills)[i]
       IN skill.id = skillId /\ skill.teachingEvaluations.defined
            => Len(skill.teachingEvaluations.value) < MaxEvals
  /\ treeSkills' = TreeAddTeachingEvaluationToTree(treeSkills, skillId, evaluation)
  /\ lastOp' = [op |-> "other"]
  /\ UNCHANGED treeNextId
  /\ UnchangedByTree

TreeIds == {generateId(n) : n \in 1..MaxTreeSkills}

NextTree ==
  \/ \E n \in TreeNames, parent \in TreeIds \cup {NoParent} : TreeAddSkill(n, parent)
  \/ \E id \in TreeIds, p \in {"Learning"} : TreeUpdateSkillProficiency(id, p)
  \/ \E id \in TreeIds, item \in ChecklistItemIds : TreeToggleChecklistItem(id, item)
  \/ \E id \in TreeIds, items \in ChecklistInputs : TreeInitializeChecklist(id, items)
  \/ \E id \in TreeIds, e \in EvaluationInputs : TreeAddTeachingEvaluation(id, e)

SpecTree == Init /\ [][NextTree]_vars

-----------------------------------------------------------------------------
(* Properties of the stores *)

EqualIgnoringCase(a, b) == toLowerCase(a) = toLowerCase(b)

NoDuplicateNames(skillList) ==
  \A i \in 1..Len(skillList), j \in 1..Len(skillList) :
    i # j => ~EqualIgnoringCase(skillList[i].name, skillList[j].name)

\* C9: in every reachable state of the store no two skills of the collection
\* have names that are equal ignoring case.
C9_NoDuplicateNames ==
  /\ NoDuplicateNames(skills)
  /\ NoDuplicateNames(Flatten(treeSkills))

\* What does hold: the flat store, whose addSkill looks for a duplicate, keeps
\* the names distinct ignoring case.
FlatNoDuplicateNames == NoDuplicateNames(skills)

\* C10: an addSkill whose name equals, ignoring case, the name of a skill of
\* the collection leaves the collection as it was: same skills, same order,
\* same ids, proficiencies, checklists and evaluations.
C10_DuplicateAddIsNoOp ==
  [][(/\ lastOp'.op = "addSkill"
      /\ \E i \in 1..Len(skills) : EqualIgnoringCase(skills[i].name, lastOp'.name))
       => skills' = skills]_vars

\* the last operation added "python"/"Python" to a store that holds the other
\* spelling, with a checklist and a proficiency the add did not touch
C10_Witness ==
  /\ lastOp.op = "addSkill"
  /\ \E i \in 1..Len(skills) :
       /\ skills[i].name # lastOp.name
       /\ EqualIgnoringCase(skills[i].name, lastOp.name)
       /\ skills[i].checklist.defined
       /\ skills[i].proficiency = "Learning"

-----------------------------------------------------------------------------
(* The consistency checker over the flat store.  A check is called with the *)
(* collection as it is then; while it waits for an answer the store goes on, *)
(* and a second check may be called.                                        *)

\* outcomes of a request sent during a check: no answer, a typical analysis,
\* an analysis that lists a dependency twice with out-of-range numbers, and
\* an analysis whose lists hold a number between the names (route.ts:96-103
\* passes any array on)
CheckEnvironments ==
  { [reachable |-> FALSE],
    [reachable |-> TRUE,
     upstream |-> [kind |-> "ok", content |-> [shape |-> "object", value |-> O_typical]]],
    [reachable |-> TRUE,
     upstream |-> [kind |-> "ok", content |-> [shape |-> "object", value |-> O_high]]],
    [reachable |-> TRUE,
     upstream |-> [kind |-> "ok", content |-> [shape |-> "object", value |-> O_mixed]]] }

\* a check that was called and waits for the answer to a request
IsRunning(c) == "pending" \in DOMAIN c

NthOf(c) == IF "nth" \in DOMAIN c THEN c.nth ELSE 0

\* the checks called since the collection changed last
ChecksRun == Max(NthOf(lastCheck), NthOf(prevCheck))

NoAnswers == [n \in {} |-> Pending]

\* where the check called as call stands, st being what it has come to with
\* the answers so far: it waits for the answer to a further request, or it
\* has returned its warnings
CheckStands(call, answers, st) ==
  IF IsWaiting(st.cache)
    THEN [ran |-> FALSE, nth |-> call.nth, userSkills |-> call.userSkills,
          returned |-> call.returned, cache0 |-> call.cache0, answers |-> answers,
          pending |-> normalizeSkillName(st.cache.name)]
    ELSE [ran |-> TRUE, nth |-> call.nth, userSkills |-> call.userSkills,
          returned |-> call.returned, warnings |-> st.warnings, origins |-> st.origins,
          resolved |-> st.resolved, requests |-> st.requests]

\* the cache as a caller that has come to st leaves it
CacheLeft(st) == IF IsWaiting(st.cache) THEN st.cache.cache ELSE st.cache

CheckCalled(call, st) ==
  /\ lastCheck' = CheckStands(call, NoAnswers, st)
  /\ skillAnalysisCache' = CacheLeft(st)

\* part_008:567-587, validateSkillConsistencyEnhanced(skills) is called: it
\* runs to its first request (part_008:351), or returns if it needs none;
\* the check is remembered as the nth, beside the check earlier and with
\* the checks that had returned when it was called
CallCheck(nth, earlier) ==
  /\ CheckCalled([nth |-> nth, userSkills |-> skills, cache0 |-> skillAnalysisCache,
                  returned |-> {c.nth : c \in {x \in {lastCheck, prevCheck} : x.ran}}],
                 validateSkillConsistencyEnhanced(skills, skillAnalysisCache, NoAnswers))
  /\ prevCheck' = earlier
  /\ lastQuery' = [asked |-> FALSE]
  /\ UNCHANGED <<skills, nextId, treeSkills, treeNextId, calls, lastOp,
                 lastRecommend, walk, lastResponse, discovery, learningPath>>

\* a check is called while at most one other check waits for an answer
StartCheck ==
  /\ ChecksRun < MaxChecks
  /\ ~(IsRunning(lastCheck) /\ IsRunning(prevCheck))
  /\ CallCheck(ChecksRun + 1, IF IsRunning(prevCheck) THEN prevCheck ELSE lastCheck)

\* a check is called while no other check waits for an answer
CheckWhenIdle ==
  /\ ~IsRunning(lastCheck) /\ ~IsRunning(prevCheck)
  /\ StartCheck

\* the answers a waiting caller has once the outcome env of its request is in
WithAnswer(c, env, cache) ==
  [n \in DOMAIN c.answers \cup {c.pending} |->
     IF n = c.pending THEN Answered(env, cache) ELSE c.answers[n]]

CheckResumed(slot, c, answers, st) ==
  /\ IF slot = "last"
       THEN lastCheck' = CheckStands(c, answers, st) /\ prevCheck' = prevCheck
       ELSE prevCheck' = CheckStands(c, answers, st) /\ lastCheck' = lastCheck
  /\ skillAnalysisCache' = CacheLeft(st)

CheckIn(slot) == IF slot = "last" THEN lastCheck ELSE prevCheck

\* part_008:351-384 and :561-615, the answer to the request of a waiting
\* check is in: the record is written to the cache, the warnings of the skill
\* are pushed, and the check runs to its next request or to its return
CheckAnswer(slot, env) ==
  /\ IsRunning(CheckIn(slot))
  /\ CheckResumed(slot, CheckIn(slot), WithAnswer(CheckIn(slot), env, skillAnalysisCache),
                  validateSkillConsistencyEnhanced(
                    CheckIn(slot).userSkills, CheckIn(slot).cache0,
                    WithAnswer(CheckIn(slot), env, skillAnalysisCache)))
  /\ UNCHANGED <<skills, nextId, treeSkills, treeNextId, calls, lastQuery, lastOp,
                 lastRecommend, walk, lastResponse, discovery, learningPath>>

CheckSlots == {"last", "prev"}

\* where the analysis of the panel stands when, with these answers, it has
\* come to st: it waits for the answer to a request and the panel shows the
\* list it had, or it has returned and the panel shows what it returned
\* (missing-skills-panel.tsx:27-33)
DiscoveryStands(call, answers, st) ==
  IF IsWaiting(st.cache)
    THEN [ran |-> FALSE, missingSkills |-> discovery.missingSkills,
          userSkills |-> call.userSkills, cache0 |-> call.cache0,
          answers |-> answers, pending |-> normalizeSkillName(st.cache.name)]
    ELSE [ran |-> TRUE, missingSkills |-> st.missingSkills]

\* what a step of the analysis that has come to st leaves behind
DiscoveryCame(call, answers, st) ==
  /\ discovery' = DiscoveryStands(call, answers, st)
  /\ skillAnalysisCache' = CacheLeft(st)

\* missing-skills-panel.tsx:18-41 for a completed profile: the button, which
\* is disabled while an analysis runs, calls discoverMissingSkillsEnhanced
\* (part_006:116-128) with the collection as it is; the call runs to its
\* first request (part_008:351), or returns if it needs none.  The button is
\* drawn only while the collection holds a skill (:74-88, :104)
analyzeMissingSkills ==
  /\ ~IsRunning(discovery)
  /\ Len(skills) > 0
  /\ DiscoveryCame([userSkills |-> skills, cache0 |-> skillAnalysisCache], NoAnswers,
                   discoverMissingSkillsEnhanced(skills, skillAnalysisCache, NoAnswers))
  /\ UNCHANGED <<skills, nextId, treeSkills, treeNextId, calls, lastCheck, prevCheck,
                 lastQuery, lastOp, lastRecommend, walk, lastResponse, learningPath>>

\* part_008:351-364 and 561: the request the analysis waits for is answered,
\* and the analysis goes on to its next request or returns
DiscoveryAnswer(env) ==
  /\ IsRunning(discovery)
  /\ DiscoveryCame(discovery, WithAnswer(discovery, env, skillAnalysisCache),
                   discoverMissingSkillsEnhanced(
                     discovery.userSkills, discovery.cache0,
                     WithAnswer(discovery, env, skillAnalysisCache)))
  /\ UNCHANGED <<skills, nextId, treeSkills, treeNextId, calls, lastCheck, prevCheck,
                 lastQuery, lastOp, lastRecommend, walk, lastResponse, learningPath>>

\* part_008:301-308, getSkillWarnings(skills, skillId)
GetSkillWarnings(skillId) ==
  /\ lastQuery' = [asked |-> TRUE, skillId |-> skillId,
                   warnings |-> getSkillWarnings(skills, skillId)]
  /\ UNCHANGED <<skills, nextId, treeSkills, treeNextId, skillAnalysisCache, calls,
                 lastCheck, prevCheck, lastOp, lastRecommend, walk, lastResponse, discovery,
                 learningPath>>

NextCheck ==
  \/ \E n \in CheckNames : addSkill([name |-> n], MaxStoreSkills)
  \/ \E id \in AllIds, p \in {"Proficient"} : updateSkillProficiency(id, p)
  \/ CheckWhenIdle
  \/ \E env \in CheckEnvironments : CheckAnswer("last", env)
  \/ \E id \in AllIds : GetSkillWarnings(id)

SpecCheck == Init /\ [][NextCheck]_vars

-----------------------------------------------------------------------------
(* Checks of one collection while the missing-skills panel analyses it: the *)
(* check and the panel resolve the same skills through the same cache.      *)

RepeatSkillData ==
  { [name |-> "Cooking", proficiency |-> "Proficient"],
    [name |-> "Baking", proficiency |-> "Mastered"] }

\* outcomes of a request of the check or of the panel: no answer, a typical
\* analysis, an analysis whose lists hold a number between the names
RepeatEnvironments ==
  { [reachable |-> FALSE],
    [reachable |-> TRUE,
     upstream |-> [kind |-> "ok", content |-> [shape |-> "object", value |-> O_typical]]],
    [reachable |-> TRUE,
     upstream |-> [kind |-> "ok", content |-> [shape |-> "object", value |-> O_mixed]]] }

NextRepeat ==
  \/ \E skillData \in RepeatSkillData : addSkill(skillData, MaxStoreSkills)
  \/ StartCheck
  \/ \E slot \in CheckSlots, env \in RepeatEnvironments : CheckAnswer(slot, env)
  \/ analyzeMissingSkills
  \/ \E env \in RepeatEnvironments : DiscoveryAnswer(env)

SpecRepeat == Init /\ [][NextRepeat]_vars

-----------------------------------------------------------------------------
(* The recommender, part_005 *)

\* part_005:367-373: a Map keyed by normalized name; a later skill of the same
\* key replaces an earlier one
createSkillMap(skillList) ==
  [k \in {normalizeSkillName(skillList[i].name) : i \in 1..Len(skillList)} |->
     skillList[CHOOSE i \in 1..Len(skillList) :
                 /\ normalizeSkillName(skillList[i].name) = k
                 /\ \A j \in 1..Len(skillList) :
                      normalizeSkillName(skillList[j].name) = k => j <= i]]

\* part_005:463-468
calculatePriority(proficiency, difficulty) ==
  IF proficiency = "Mastered" /\ difficulty <= 6 THEN "high"
  ELSE IF proficiency = "Proficient" /\ difficulty <= 5 THEN "high"
  ELSE IF difficulty <= 4 THEN "medium"
  ELSE "low"

\* part_005:470-474
calculatePriorityFromDifficulty(difficulty) ==
  IF difficulty <= 4 THEN "high"
  ELSE IF difficulty <= 6 THEN "medium"
  ELSE "low"

\* a deduplication in which the last entry of a name wins
removeDuplicateRecommendations_LastWins(recommendations) ==
  LET Last(i) == \A j \in 1..Len(recommendations) :
                   normalizeSkillName(recommendations[j].skillName)
                     = normalizeSkillName(recommendations[i].skillName) => j <= i
      F[i \in 0..Len(recommendations)] ==
        IF i = 0 THEN <<>>
        ELSE IF Last(i) THEN Append(F[i - 1], recommendations[i]) ELSE F[i - 1]
  IN F[Len(recommendations)]

\* part_005:476-489: the first entry of every normalized name, in order
removeDuplicateRecommendations(recommendations) ==
  LET First(i) == \A j \in 1..Len(recommendations) :
                    normalizeSkillName(recommendations[j].skillName)
                      = normalizeSkillName(recommendations[i].skillName) => i <= j
      F[i \in 0..Len(recommendations)] ==
        IF i = 0 THEN <<>>
        ELSE IF First(i) THEN Append(F[i - 1], recommendations[i]) ELSE F[i - 1]
  IN F[Len(recommendations)]

\* part_005:245
priorityOrder == [high |-> 3, medium |-> 2, low |-> 1]

\* a comparator that looks at the difficulty only
CompareRecommendations_DifficultyOnly(a, b) == a.difficulty - b.difficulty

\* part_005:243-250, the comparator handed to sort
CompareRecommendations(a, b) ==
  IF a.priority # b.priority
    THEN priorityOrder[b.priority] - priorityOrder[a.priority]
    ELSE a.difficulty - b.difficulty

\* Array.prototype.sort is stable: rec goes behind every entry that does not
\* compare greater than it
InsertSorted(sorted, rec) ==
  LET behind == {i \in 1..Len(sorted) : CompareRecommendations(sorted[i], rec) <= 0}
      k == IF behind = {} THEN 0 ELSE CHOOSE i \in behind : \A j \in behind : j <= i
  IN SubSeq(sorted, 1, k) \o <<rec>> \o SubSeq(sorted, k + 1, Len(sorted))

\* part_005:242-250, .sort(comparator)
SortRecommendations(recommendations) ==
  LET F[i \in 0..Len(recommendations)] ==
        IF i = 0 THEN <<>> ELSE InsertSorted(F[i - 1], recommendations[i])
  IN F[Len(recommendations)]

\* a result that is not cut
TopRecommendations_All(recommendations) == recommendations

\* part_005:251, .slice(0, 8)
TopRecommendations(recommendations) ==
  SubSeq(recommendations, 1, Min(8, Len(recommendations)))

\* a slice that keeps the whole list
Slice_All(list, n) == list

\* Array.prototype.slice(0, n)
Slice(list, n) == SubSeq(list, 1, Min(n, Len(list)))

\* part_005:491-493: a random identifier; the n-th identifier drawn in one
\* run stands for it, behind the prefix the caller puts in front
RecommendationId(prefix, n) == prefix \o "-" \o ToString(n)

\* a map that is taken to hold nothing
MapHas_Nothing(map, name) == FALSE

\* Map.has(normalizeSkillName(name))
MapHas(map, name) == normalizeSkillName(name) \in DOMAIN map

Sent(r) == IF r.sent THEN 1 ELSE 0

\* one field of the record a resolution r returned, beside what r did
FieldOf(r, field) == [value |-> r.result[field], cache |-> r.cache, sent |-> r.sent]

\* part_005:601-608 (getSkillDependencies of part_008 never throws)
getDynamicSkillDifficulty(cache, skillName, env) ==
  FieldOf(getSkillDependencies(cache, skillName, env), "difficulty")

\* part_005:613-620
getDynamicSkillHours(cache, skillName, env) ==
  FieldOf(getSkillDependencies(cache, skillName, env), "estimatedHours")

\* part_005:625-632
getDynamicSkillCategory(cache, skillName, env) ==
  FieldOf(getSkillDependencies(cache, skillName, env), "category")

\* an entry for an enabled skill that is tagged as an advanced topic
NextStepRecord_Advanced(n, skill, enabledSkill, difficulty, estimatedHours, category, priority) ==
  [id |-> RecommendationId("next", n), skillName |-> enabledSkill,
   type |-> "advanced",
   reason |-> "You know " \o skill.name \o ", which enables learning " \o enabledSkill,
   difficulty |-> difficulty, estimatedHours |-> estimatedHours,
   category |-> category, priority |-> priority,
   currentSkillProficiency |-> skill.proficiency]

\* part_005:216-226, the object pushed for an enabled skill
NextStepRecord(n, skill, enabledSkill, difficulty, estimatedHours, category, priority) ==
  [id |-> RecommendationId("next", n), skillName |-> enabledSkill,
   type |-> "next_step",
   reason |-> "You know " \o skill.name \o ", which enables learning " \o enabledSkill,
   difficulty |-> difficulty, estimatedHours |-> estimatedHours,
   category |-> category, priority |-> priority,
   currentSkillProficiency |-> skill.proficiency]

\* part_005:216-226 after its four awaits d, h, c, p
PushEnabled4(st, skill, enabledSkill, d, h, c, p) ==
  [recs |-> Append(st.recs,
                   NextStepRecord(Len(st.recs) + 1, skill, enabledSkill, d.value,
                                  h.value, c.value,
                                  calculatePriority(skill.proficiency, p.value))),
   learned |-> st.learned,
   cache |-> p.cache,
   requests |-> st.requests + Sent(d) + Sent(h) + Sent(c) + Sent(p)]

\* part_005:224, the second resolution of the difficulty
PushEnabled3(st, skill, enabledSkill, env, d, h, c) ==
  PushEnabled4(st, skill, enabledSkill, d, h, c,
               getDynamicSkillDifficulty(c.cache, enabledSkill, env))

\* part_005:223
PushEnabled2(st, skill, enabledSkill, env, d, h) ==
  PushEnabled3(st, skill, enabledSkill, env, d, h,
               getDynamicSkillCategory(h.cache, enabledSkill, env))

\* part_005:222
PushEnabled1(st, skill, enabledSkill, env, d) ==
  PushEnabled2(st, skill, enabledSkill, env, d,
               getDynamicSkillHours(d.cache, enabledSkill, env))

\* part_005:221
PushEnabled(st, skill, enabledSkill, env) ==
  PushEnabled1(st, skill, enabledSkill, env,
               getDynamicSkillDifficulty(st.cache, enabledSkill, env))

\* part_005:214-228, the loop over skillDep.enables from position j on
RECURSIVE EnabledLoop(_, _, _, _, _, _)
EnabledLoop(st, skill, enables, j, userSkillMap, oracle) ==
  IF j > Len(enables) THEN st
  ELSE IF IsNotString(enables[j]) THEN st   \* part_005:229-232, the catch
  ELSE EnabledLoop(IF MapHas(userSkillMap, enables[j]) THEN st
                   ELSE PushEnabled(st, skill, enables[j], EnvFor(oracle, enables[j])),
                   skill, enables, j + 1, userSkillMap, oracle)

\* part_005:208-228 for one learned skill, r being its resolution; learned
\* keeps the skills the loop has worked on, each with the record it got
AfterLearnedSkill(st, skill, r, userSkillMap, oracle) ==
  EnabledLoop([recs |-> st.recs,
               learned |-> Append(st.learned, [skill |-> skill, skillDep |-> r.result]),
               cache |-> r.cache,
               requests |-> st.requests + Sent(r)],
              skill, r.result.enables, 1, userSkillMap, oracle)

\* part_005:199-233, the loop over the learned skills from position i on
RECURSIVE LearnedLoop(_, _, _, _, _)
LearnedLoop(st, userSkills, i, userSkillMap, oracle) ==
  IF i > Len(userSkills) THEN st
  ELSE LearnedLoop(IF userSkills[i].proficiency \in {"Learning", "Proficient", "Mastered"}
                     THEN AfterLearnedSkill(st, userSkills[i],
                            getSkillDependencies(st.cache, userSkills[i].name,
                                                 EnvFor(oracle, userSkills[i].name)),
                            userSkillMap, oracle)
                     ELSE st,
                   userSkills, i + 1, userSkillMap, oracle)

\* part_005:677: a category is a key of the object, in the order of its
\* first insertion (every count is positive)
CountCategory(st, r) ==
  [categories |-> IF \E k \in 1..Len(st.categories) : st.categories[k] = r.result.category
                    THEN st.categories
                    ELSE Append(st.categories, r.result.category),
   cache |-> r.cache,
   requests |-> st.requests + Sent(r)]

\* part_005:671-684
RECURSIVE analyzeSkillCategories(_, _, _, _)
analyzeSkillCategories(st, userSkills, i, oracle) ==
  IF i > Len(userSkills) THEN st
  ELSE analyzeSkillCategories(
         CountCategory(st, getSkillDependencies(st.cache, userSkills[i].name,
                                                EnvFor(oracle, userSkills[i].name))),
         userSkills, i + 1, oracle)

\* Array.prototype.filter(skill => !userSkillMap.has(normalizeSkillName(skill)))
NotHeld(names, userSkillMap) ==
  LET F[i \in 0..Len(names)] ==
        IF i = 0 THEN <<>>
        ELSE IF MapHas(userSkillMap, names[i]) THEN F[i - 1]
        ELSE Append(F[i - 1], names[i])
  IN F[Len(names)]

\* the value of a [key, skills] table at key, [] when the key is absent
TableAt(table, key) ==
  LET rows == {r \in 1..Len(table) : table[r].key = key}
  IN IF rows = {} THEN <<>> ELSE table[CHOOSE r \in rows : TRUE].skills

\* part_005:689-714; n identifiers were drawn before
getComplementarySkills(category, userSkillMap, n) ==
  LET chosen == Slice(NotHeld(TableAt(complementarySkillsMap, category), userSkillMap), 2)
  IN [j \in 1..Len(chosen) |->
        [id |-> RecommendationId("comp", n + j), skillName |-> chosen[j],
         type |-> "next_step",
         reason |-> "Complements your " \o category \o " skills",
         difficulty |-> 4, estimatedHours |-> 25, category |-> category,
         priority |-> "medium"]]

\* part_005:731-740: the skills of the first role that contains the given
\* role or is contained in it
RoleSkills(role) ==
  LET normalizedRole == toLowerCase(role)
      rows == {r \in 1..Len(roleSkillsMap) :
                 \/ includes(normalizedRole, roleSkillsMap[r].key)
                 \/ includes(roleSkillsMap[r].key, normalizedRole)}
  IN IF rows = {} THEN <<>>
     ELSE roleSkillsMap[CHOOSE r \in rows : \A q \in rows : r <= q].skills

\* part_005:719-755
getRoleBasedSuggestions(role, userSkillMap, n) ==
  LET chosen == Slice(NotHeld(RoleSkills(role), userSkillMap), 2)
  IN [j \in 1..Len(chosen) |->
        [id |-> RecommendationId("role", n + j), skillName |-> chosen[j],
         type |-> "next_step",
         reason |-> "Essential for " \o role \o " role",
         difficulty |-> 4, estimatedHours |-> 20, category |-> "professional",
         priority |-> "high"]]

\* part_005:760-779
getTrendingSkillSuggestions(userSkillMap, n) ==
  LET chosen == Slice(NotHeld(trendingSkills, userSkillMap), 2)
  IN [j \in 1..Len(chosen) |->
        [id |-> RecommendationId("trend", n + j), skillName |-> chosen[j],
         type |-> "advanced",
         reason |-> "High-demand skill in current market",
         difficulty |-> 6, estimatedHours |-> 40, category |-> "trending",
         priority |-> "medium"]]

\* part_005:648-653, the loop over the categories from position k on
RECURSIVE ComplementaryLoop(_, _, _, _, _)
ComplementaryLoop(suggestions, categories, k, userSkillMap, n) ==
  IF k > Len(categories) THEN suggestions
  ELSE ComplementaryLoop(
         suggestions \o getComplementarySkills(categories[k], userSkillMap,
                                               n + Len(suggestions)),
         categories, k + 1, userSkillMap, n)

NoContext == [given |-> FALSE]

\* part_005:656, userContext?.currentRole is truthy
HasRole(userContext) ==
  /\ userContext.given
  /\ "currentRole" \in DOMAIN userContext
  /\ userContext.currentRole # ""

\* part_005:655-659
WithRoleSuggestions(suggestions, userContext, userSkillMap, n) ==
  IF HasRole(userContext)
    THEN suggestions \o getRoleBasedSuggestions(userContext.currentRole, userSkillMap,
                                                n + Len(suggestions))
    ELSE suggestions

\* part_005:661-663
WithTrendingSuggestions(suggestions, userSkillMap, n) ==
  suggestions \o getTrendingSkillSuggestions(userSkillMap, n + Len(suggestions))

\* part_005:637-666, after analyzeSkillCategories gave the categories; n
\* identifiers were drawn before
generateAlgorithmicSuggestions(categories, userContext, userSkillMap, n) ==
  Slice(WithTrendingSuggestions(
          WithRoleSuggestions(
            ComplementaryLoop(<<>>, categories, 1, userSkillMap, n),
            userContext, userSkillMap, n),
          userSkillMap, n),
        5)

\* part_005:927-934
getSimilarSkillDifficulty(similarSkill) ==
  IF similarSkill \in DOMAIN similarSkillDifficultyMap
    THEN similarSkillDifficultyMap[similarSkill] ELSE 5

\* part_005:940-947
getSimilarSkillHours(similarSkill) ==
  IF similarSkill \in DOMAIN similarSkillHoursMap
    THEN similarSkillHoursMap[similarSkill] ELSE 25

\* part_005:953-970
getSimilarSkillCategory(originalSkill) ==
  LET normalized == normalizeSkillName(originalSkill)
  IN IF includes(normalized, "react") \/ includes(normalized, "vue")
          \/ includes(normalized, "angular") THEN "frontend"
     ELSE IF includes(normalized, "node") \/ includes(normalized, "express")
          \/ includes(normalized, "django") THEN "backend"
     ELSE IF includes(normalized, "docker") \/ includes(normalized, "kubernetes")
          \/ includes(normalized, "jenkins") THEN "devops"
     ELSE IF includes(normalized, "aws") \/ includes(normalized, "azure")
          \/ includes(normalized, "gcp") THEN "cloud"
     ELSE "general"

\* normalized.split(' ')[0]: what stands before the first space
RECURSIVE FirstWord(_)
FirstWord(s) ==
  IF Len(s) = 0 \/ CharAt(s, 1) = " " THEN ""
  ELSE SubSeq(s, 1, 1) \o FirstWord(SubSeq(s, 2, Len(s)))

\* part_005:891-904: the first cluster whose key the name contains, or whose
\* key contains the first word of the name
ClusterOf(normalized) ==
  LET rows == {r \in 1..Len(skillClusters) :
                 \/ includes(normalized, skillClusters[r].key)
                 \/ includes(skillClusters[r].key, FirstWord(normalized))}
  IN IF rows = {} THEN <<>>
     ELSE skillClusters[CHOOSE r \in rows : \A q \in rows : r <= q].skills

\* part_005:907-919, used when no cluster matched
BroadCategoryMatches(normalized) ==
  IF includes(normalized, "framework") \/ includes(normalized, "library")
    THEN << [name |-> "Software Architecture",
             reason |-> "frameworks require architectural knowledge",
             difficulty |-> 6, estimatedHours |-> 30, category |-> "architecture"],
            [name |-> "Design Patterns", reason |-> "common in framework development",
             difficulty |-> 5, estimatedHours |-> 25, category |-> "programming"] >>
  ELSE IF includes(normalized, "database") \/ includes(normalized, "sql")
    THEN << [name |-> "Database Design",
             reason |-> "fundamental for database technologies",
             difficulty |-> 5, estimatedHours |-> 25, category |-> "database"],
            [name |-> "Data Modeling", reason |-> "essential for database work",
             difficulty |-> 4, estimatedHours |-> 20, category |-> "database"] >>
  ELSE <<>>

\* part_005:893-901
ClusterMatches(skillName, related) ==
  [j \in 1..Len(related) |->
     [name |-> related[j], reason |-> "alternative to " \o skillName,
      difficulty |-> getSimilarSkillDifficulty(related[j]),
      estimatedHours |-> getSimilarSkillHours(related[j]),
      category |-> getSimilarSkillCategory(skillName)]]

\* part_005:825-921
getSemanticallySimilarSkills(skillName) ==
  LET related == ClusterOf(normalizeSkillName(skillName))
  IN Slice(IF Len(related) > 0 THEN ClusterMatches(skillName, related)
           ELSE BroadCategoryMatches(normalizeSkillName(skillName)),
           3)

\* part_005:797-815, the loop over similarSkills from position j on; st holds
\* the suggestions pushed and the names seen
RECURSIVE SimilarLoop(_, _, _, _, _, _)
SimilarLoop(st, userSkill, similarSkills, j, userSkillMap, n) ==
  IF j > Len(similarSkills) THEN st
  ELSE SimilarLoop(
         IF ~MapHas(userSkillMap, similarSkills[j].name)
            /\ normalizeSkillName(similarSkills[j].name) \notin st.names
           THEN [suggestions |->
                   Append(st.suggestions,
                     [id |-> RecommendationId("semantic", n + Len(st.suggestions) + 1),
                      skillName |-> similarSkills[j].name,
                      type |-> "next_step",
                      reason |-> "Similar to your " \o userSkill.name \o " skill ("
                                 \o similarSkills[j].reason \o ")",
                      difficulty |-> similarSkills[j].difficulty,
                      estimatedHours |-> similarSkills[j].estimatedHours,
                      category |-> similarSkills[j].category,
                      priority |-> "medium"]),
                 names |-> st.names \cup {normalizeSkillName(similarSkills[j].name)}]
           ELSE st,
         userSkill, similarSkills, j + 1, userSkillMap, n)

\* part_005:793-817, the loop over the user's skills from position i on
RECURSIVE SemanticLoop(_, _, _, _, _)
SemanticLoop(st, userSkills, i, userSkillMap, n) ==
  IF i > Len(userSkills) THEN st
  ELSE SemanticLoop(
         IF hasMeaningfulProficiency(userSkills[i].proficiency)
           THEN SimilarLoop(st, userSkills[i],
                            getSemanticallySimilarSkills(userSkills[i].name), 1,
                            userSkillMap, n)
           ELSE st,
         userSkills, i + 1, userSkillMap, n)

\* part_005:784-820
addSemanticSimilarityRecommendations(userSkills, existingSuggestions) ==
  existingSuggestions
  \o Slice(SemanticLoop(
             [suggestions |-> <<>>,
              names |-> {normalizeSkillName(existingSuggestions[k].skillName) :
                           k \in 1..Len(existingSuggestions)}],
             userSkills, 1, createSkillMap(userSkills),
             Len(existingSuggestions)).suggestions,
           3)

\* part_005:242-251 for the merged list: what the run leaves behind
RecommendFrom(merged, unique, learned, cache, requests) ==
  [merged |-> merged, unique |-> unique,
   result |-> TopRecommendations(SortRecommendations(unique)),
   learned |-> learned, cache |-> cache, requests |-> requests]

\* part_005:242, the deduplication of the merged list
RecommendMerged(merged, learned, cache, requests) ==
  RecommendFrom(merged, removeDuplicateRecommendations(merged), learned, cache,
                requests)

\* part_005:236-242, cats being what analyzeSkillCategories returned
RecommendWithCategories(userSkills, userContext, direct, cats) ==
  RecommendMerged(
    addSemanticSimilarityRecommendations(userSkills,
      direct.recs \o generateAlgorithmicSuggestions(cats.categories, userContext,
                        createSkillMap(userSkills), Len(direct.recs))),
    direct.learned, cats.cache, cats.requests)

\* part_005:236, direct being the state after the loop over the learned skills
RecommendAfterDirect(userSkills, userContext, oracle, direct) ==
  RecommendWithCategories(userSkills, userContext, direct,
    analyzeSkillCategories([categories |-> <<>>, cache |-> direct.cache,
                            requests |-> direct.requests],
                           userSkills, 1, oracle))

\* part_005:191-252, getWhatToLearnNext(userSkills, userContext) run to
\* completion: the merged list, the list without duplicates, the list
\* returned, the cache afterwards and the number of requests sent
getWhatToLearnNext(userSkills, userContext, cache, oracle) ==
  RecommendAfterDirect(userSkills, userContext, oracle,
    LearnedLoop([recs |-> <<>>, learned |-> <<>>, cache |-> cache, requests |-> 0],
                userSkills, 1, createSkillMap(userSkills), oracle))

-----------------------------------------------------------------------------
(* The learning recommendations for one skill, part_005:159-186 and 383-598 *)

\* part_005:448-451, :453-456 and :458-461, the deprecated defaults
getSkillDifficulty(skillName) == 5
getSkillEstimatedHours(skillName) == 20
getSkillCategory(skillName) == "general"

\* part_005:390 and :430: normalizeSkillName of an entry that is no string
\* throws (entry.toLowerCase is not a function)
ThrowsOn(names) == \E i \in 1..Len(names) : IsNotString(names[i])

\* part_005:392-417, the record pushed for a dependency the user does not
\* hold, or holds at no meaningful proficiency; n counts the identifiers drawn
PrerequisiteRecord(n, dependency, skillDep, userSkillMap) ==
  IF ~MapHas(userSkillMap, dependency)
    THEN [id |-> RecommendationId("prereq", n), skillName |-> dependency,
          type |-> "prerequisite",
          reason |-> "Required prerequisite for " \o skillDep.skillName,
          difficulty |-> getSkillDifficulty(dependency),
          estimatedHours |-> getSkillEstimatedHours(dependency),
          category |-> getSkillCategory(dependency), priority |-> "high"]
    ELSE [id |-> RecommendationId("prereq", n), skillName |-> dependency,
          type |-> "prerequisite",
          reason |-> "Strengthen prerequisite for " \o skillDep.skillName,
          difficulty |-> getSkillDifficulty(dependency),
          estimatedHours |-> getSkillEstimatedHours(dependency),
          category |-> getSkillCategory(dependency), priority |-> "medium",
          currentSkillProficiency |->
            userSkillMap[normalizeSkillName(dependency)].proficiency]

\* part_005:383-421, for a list of dependencies that are strings
getPrerequisiteRecommendations(skillDep, userSkillMap) ==
  LET Missing(dependency) ==
        \/ ~MapHas(userSkillMap, dependency)
        \/ ~hasMeaningfulProficiency(
              userSkillMap[normalizeSkillName(dependency)].proficiency)
      F[i \in 0..Len(skillDep.dependencies)] ==
        IF i = 0 THEN <<>>
        ELSE IF Missing(skillDep.dependencies[i])
          THEN Append(F[i - 1],
                      PrerequisiteRecord(Len(F[i - 1]) + 1, skillDep.dependencies[i],
                                         skillDep, userSkillMap))
          ELSE F[i - 1]
  IN F[Len(skillDep.dependencies)]

\* part_005:431-440
NaturalNextStep(n, enabledSkill, skillDep) ==
  [id |-> RecommendationId("next", n), skillName |-> enabledSkill,
   type |-> "next_step",
   reason |-> "Natural progression from " \o skillDep.skillName,
   difficulty |-> getSkillDifficulty(enabledSkill),
   estimatedHours |-> getSkillEstimatedHours(enabledSkill),
   category |-> getSkillCategory(enabledSkill),
   priority |-> calculatePriorityFromDifficulty(getSkillDifficulty(enabledSkill))]

\* Array.prototype.sort((a, b) => a.difficulty - b.difficulty), which is
\* stable: the records of difficulty 1, then those of difficulty 2, ...
SortByDifficulty(list) ==
  LET F[d \in 0..10] ==
        IF d = 0 THEN <<>>
        ELSE LET Of(rec) == rec.difficulty = d IN F[d - 1] \o SelectSeq(list, Of)
  IN F[10]

\* part_005:423-445, for a list of enabled skills that are strings; drawn
\* counts the identifiers drawn before
getNextStepRecommendations(skillDep, userSkillMap, drawn) ==
  LET F[j \in 0..Len(skillDep.enables)] ==
        IF j = 0 THEN <<>>
        ELSE IF ~MapHas(userSkillMap, skillDep.enables[j])
          THEN Append(F[j - 1],
                      NaturalNextStep(drawn + Len(F[j - 1]) + 1, skillDep.enables[j],
                                      skillDep))
          ELSE F[j - 1]
  IN Slice(SortByDifficulty(F[Len(skillDep.enables)]), 5)

\* recs.reduce((sum, rec) => sum + rec.estimatedHours, 0)
TotalHours(recs) ==
  LET F[i \in 0..Len(recs)] ==
        IF i = 0 THEN 0 ELSE F[i - 1] + recs[i].estimatedHours
  IN F[Len(recs)]

\* part_005:578-598
createFallbackRecommendation(n, skillName, type, reason) ==
  [id |-> RecommendationId("fallback", n), skillName |-> skillName, type |-> type,
   reason |-> reason,
   difficulty |-> CASE type = "prerequisite" -> 3 [] type = "next_step" -> 4
                    [] type = "advanced" -> 6,
   estimatedHours |-> CASE type = "prerequisite" -> 15 [] type = "next_step" -> 20
                        [] type = "advanced" -> 30,
   category |-> "general",
   priority |-> IF type = "prerequisite" THEN "high" ELSE "medium"]

\* part_005:538-569, the three suggestions of the first pattern the
\* normalized name matches: name, type and reason of each
FallbackSuggestions(skillName, normalized) ==
  IF includes(normalized, "programming") \/ includes(normalized, "coding")
    THEN << <<"Software Engineering", "next_step",
              "Apply " \o skillName \o " in larger projects">>,
            <<"Version Control", "next_step", "Essential for any programming work">>,
            <<"Testing", "next_step", "Quality assurance for code">> >>
  ELSE IF includes(normalized, "management") \/ includes(normalized, "leadership")
    THEN << <<"Team Building", "next_step",
              "Enhance " \o skillName \o " with team dynamics">>,
            <<"Strategic Planning", "next_step", "Long-term thinking and planning">>,
            <<"Communication", "next_step", "Essential for effective leadership">> >>
  ELSE IF \/ includes(normalized, "design") \/ includes(normalized, "ui")
          \/ includes(normalized, "ux")
    THEN << <<"User Research", "next_step", "Understand user needs for better design">>,
            <<"Prototyping", "next_step", "Rapid iteration and testing">>,
            <<"Design Systems", "next_step", "Scalable and consistent design">> >>
  ELSE IF includes(normalized, "data") \/ includes(normalized, "analytics")
    THEN << <<"Statistics", "next_step", "Mathematical foundation for data work">>,
            <<"Visualization", "next_step", "Present data insights effectively">>,
            <<"Machine Learning", "advanced", "Advanced data analysis techniques">> >>
  ELSE << <<"Project Management", "next_step",
            "Organize and execute " \o skillName \o " projects">>,
          <<"Documentation", "next_step", "Share knowledge and best practices">>,
          <<"Continuous Learning", "next_step",
            "Stay current with " \o skillName \o " trends">> >>

\* part_005:534-573; drawn counts the identifiers drawn before
generateFallbackNextSteps(skillName, drawn) ==
  LET suggestions == FallbackSuggestions(skillName, normalizeSkillName(skillName))
  IN Slice([k \in 1..Len(suggestions) |->
              createFallbackRecommendation(drawn + k, suggestions[k][1],
                                           suggestions[k][2], suggestions[k][3])],
           3)

\* part_005:504
foundationalSkills == <<"Problem Solving", "Critical Thinking", "Communication">>

\* part_005:507-516
FallbackPrerequisite(n, skill, targetSkillName) ==
  [id |-> RecommendationId("fallback", n), skillName |-> skill,
   type |-> "prerequisite",
   reason |-> "Foundational skill that supports learning " \o targetSkillName,
   difficulty |-> 2, estimatedHours |-> 10, category |-> "foundational",
   priority |-> "medium"]

\* part_005:502-519, the foundational skills the user does not hold, offered
\* to a user of fewer than three skills
FallbackPrerequisites(targetSkillName, userSkills) ==
  LET Held(skill) ==
        \E i \in 1..Len(userSkills) :
          normalizeSkillName(userSkills[i].name) = normalizeSkillName(skill)
      F[k \in 0..Len(foundationalSkills)] ==
        IF k = 0 THEN <<>>
        ELSE IF ~Held(foundationalSkills[k])
          THEN Append(F[k - 1],
                      FallbackPrerequisite(Len(F[k - 1]) + 1, foundationalSkills[k],
                                           targetSkillName))
          ELSE F[k - 1]
  IN IF Len(userSkills) < 3 THEN F[Len(foundationalSkills)] ELSE <<>>

\* part_005:522-530, recommendations being the prerequisites gathered
FallbackLearningPath(targetSkillName, recommendations) ==
  [targetSkill |-> targetSkillName, prerequisites |-> recommendations,
   nextSteps |-> generateFallbackNextSteps(targetSkillName, Len(recommendations)),
   estimatedTotalHours |-> TotalHours(recommendations)]

\* part_005:498-531
generateFallbackLearningPath(targetSkillName, userSkills) ==
  FallbackLearningPath(targetSkillName,
                       FallbackPrerequisites(targetSkillName, userSkills))

\* part_005:175-180, prerequisites being what getPrerequisiteRecommendations
\* returned
LearningPathWith(targetSkillName, skillDep, userSkillMap, prerequisites) ==
  [targetSkill |-> targetSkillName, prerequisites |-> prerequisites,
   nextSteps |-> getNextStepRecommendations(skillDep, userSkillMap,
                                            Len(prerequisites)),
   estimatedTotalHours |-> TotalHours(prerequisites)]

\* part_005:171-185, skillDep being the record getSkillDependencies
\* returned: the two lists are gathered, or one of them holds an entry that
\* is no string, the loop over it throws and the catch returns the fallback
LearningPathOf(targetSkillName, userSkills, skillDep) ==
  IF ThrowsOn(skillDep.dependencies) \/ ThrowsOn(skillDep.enables)
    THEN generateFallbackLearningPath(targetSkillName, userSkills)
    ELSE LearningPathWith(targetSkillName, skillDep, createSkillMap(userSkills),
                          getPrerequisiteRecommendations(skillDep,
                                                         createSkillMap(userSkills)))

\* part_005:166-185, r being what the await of getSkillDependencies came to
LearningPathAfter(targetSkillName, userSkills, r) ==
  [path |-> LearningPathOf(targetSkillName, userSkills, r.result),
   fellBack |-> ThrowsOn(r.result.dependencies) \/ ThrowsOn(r.result.enables),
   cache |-> r.cache, requests |-> Sent(r)]

\* part_005:159-186, getSkillLearningRecommendations(targetSkillName,
\* userSkills): the LearningPath returned, the cache afterwards and the
\* number of requests sent; answer is what is known of the outcome of the
\* request for the target
getSkillLearningRecommendations(targetSkillName, userSkills, cache, answer) ==
  LearningPathAfter(targetSkillName, userSkills,
                    getSkillDependencies(cache, targetSkillName, answer))

-----------------------------------------------------------------------------
(* The recommender over the flat store *)

RecommendSkillData ==
  { [name |-> "React", proficiency |-> "Mastered"],
    [name |-> "Cooking", proficiency |-> "Learning"],
    [name |-> "Testing"] }

UserContexts ==
  { NoContext,
    [given |-> TRUE, currentRole |-> "Developer"],
    [given |-> TRUE, yearsOfExperience |-> 3] }

AnswerOf(object) ==
  [reachable |-> TRUE,
   upstream |-> [kind |-> "ok", content |-> [shape |-> "object", value |-> object]]]

\* outcomes of a request sent during a run of the recommender
RecommendEnvironments ==
  { [reachable |-> FALSE] } \cup { AnswerOf(o) : o \in {O_cook, O_high, O_negative} }

\* the runs of the recommender so far in this behaviour
RecommendsRun == lastRecommend.nth

\* where a run called as call stands when, with these answers, it has come to
\* r: it waits for the answer to a request, or it has returned
RecommendStands(call, answers, r) ==
  IF IsWaiting(r.cache)
    THEN [ran |-> FALSE, nth |-> call.nth, userSkills |-> call.userSkills,
          userContext |-> call.userContext, cache0 |-> call.cache0,
          answers |-> answers, pending |-> normalizeSkillName(r.cache.name)]
    ELSE [ran |-> TRUE, nth |-> call.nth, userSkills |-> call.userSkills,
          userContext |-> call.userContext, merged |-> r.merged,
          unique |-> r.unique, result |-> r.result, learned |-> r.learned,
          requests |-> r.requests]

\* what a step of a run that has come to r leaves behind
RecommendCame(call, answers, r) ==
  /\ lastRecommend' = RecommendStands(call, answers, r)
  /\ skillAnalysisCache' = CacheLeft(r)

\* part_005:191-252, getWhatToLearnNext(skills, userContext) is called: it
\* runs to its first request (part_008:351), or returns if it needs none
StartRecommend(userContext) ==
  /\ RecommendsRun < MaxRecommends
  /\ ~IsRunning(lastRecommend)
  /\ RecommendCame([nth |-> RecommendsRun + 1, userSkills |-> skills,
                    userContext |-> userContext, cache0 |-> skillAnalysisCache],
                   NoAnswers,
                   getWhatToLearnNext(skills, userContext, skillAnalysisCache, NoAnswers))
  /\ UNCHANGED <<skills, nextId, treeSkills, treeNextId, calls, lastCheck,
                 prevCheck, lastQuery, lastOp, walk, lastResponse, discovery, learningPath>>

\* part_008:351-364 and 561: the request the run waits for is answered, and
\* the run goes on to its next request or returns
RecommendAnswer(env) ==
  /\ IsRunning(lastRecommend)
  /\ RecommendCame(lastRecommend,
                   WithAnswer(lastRecommend, env, skillAnalysisCache),
                   getWhatToLearnNext(lastRecommend.userSkills,
                                      lastRecommend.userContext,
                                      lastRecommend.cache0,
                                      WithAnswer(lastRecommend, env, skillAnalysisCache)))
  /\ UNCHANGED <<skills, nextId, treeSkills, treeNextId, calls, lastCheck,
                 prevCheck, lastQuery, lastOp, walk, lastResponse, discovery, learningPath>>

NextRecommend ==
  \/ \E d \in RecommendSkillData : addSkill(d, MaxStoreSkills)
  \/ \E c \in UserContexts : StartRecommend(c)
  \/ \E env \in RecommendEnvironments : RecommendAnswer(env)

SpecRecommend == Init /\ [][NextRecommend]_vars

-----------------------------------------------------------------------------
(* The consistency check and the recommender when the work on a skill       *)
(* fails: the inference service cannot be reached, or it answers with lists *)
(* that hold entries that are no strings.                                    *)

FaultySkillData ==
  { [name |-> "Cooking", proficiency |-> "Learning"],
    [name |-> "Docker", proficiency |-> "Learning"] }

FaultyEnvironments ==
  { [reachable |-> FALSE], AnswerOf(O_mixed), AnswerOf(O_typical) }

FaultyCheck == \E env \in FaultyEnvironments : CheckAnswer("last", env)

FaultyRecommend == \E env \in FaultyEnvironments : RecommendAnswer(env)

NextFaulty ==
  \/ \E skillData \in FaultySkillData : addSkill(skillData, MaxStoreSkills)
  \/ CheckWhenIdle
  \/ FaultyCheck
  \/ StartRecommend(NoContext)
  \/ FaultyRecommend

SpecFaulty == Init /\ [][NextFaulty]_vars

-----------------------------------------------------------------------------
(* The learning recommendations of a card beside the recommender: both      *)
(* resolve through getSkillDependencies and share its cache.                 *)

\* the skills of the user: one the rules know, one they do not, and the
\* dependencies the inference service lists for it, one of them held already
LearningSkillData ==
  { [name |-> "React", proficiency |-> "Proficient"],
    [name |-> "Cooking", proficiency |-> "Learning"],
    [name |-> "Version Control"],
    [name |-> "Docker", proficiency |-> "Mastered"] }

\* the targets of getSkillLearningRecommendations: names of cards
LearningTargets == {"Cooking", "React"}

\* outcomes of a request: the service cannot be reached, it answers with
\* lists of names, or with lists that hold an entry that is no string
LearningEnvironments ==
  { [reachable |-> FALSE], AnswerOf(O_typical), AnswerOf(O_mixed) }

\* where a call of getSkillLearningRecommendations stands that has come to
\* r: it waits for the answer to its request, or it has returned
LearningPathStands(targetSkillName, userSkills, r) ==
  IF IsWaiting(r.cache)
    THEN [ran |-> FALSE, targetSkillName |-> targetSkillName,
          userSkills |-> userSkills, pending |-> normalizeSkillName(r.cache.name)]
    ELSE [ran |-> TRUE, targetSkillName |-> targetSkillName, path |-> r.path,
          fellBack |-> r.fellBack, requests |-> r.requests]

\* part_005:159-186, getSkillLearningRecommendations(targetSkillName, skills)
\* is called, as the card of a skill does for its own name whenever the
\* collection changes (part_001:190-202), whether or not earlier calls have
\* returned: it runs to its request (part_008:351), or returns if it needs
\* none
StartLearningPath(targetSkillName) ==
  /\ Len(learningPath) < MaxLearningPaths
  /\ learningPath' =
       Append(learningPath,
              LearningPathStands(targetSkillName, skills,
                getSkillLearningRecommendations(targetSkillName, skills,
                                                skillAnalysisCache, Pending)))
  /\ skillAnalysisCache' =
       CacheLeft(getSkillLearningRecommendations(targetSkillName, skills,
                                                 skillAnalysisCache, Pending))
  /\ UNCHANGED <<skills, nextId, treeSkills, treeNextId, calls, lastCheck,
                 prevCheck, lastQuery, lastOp, lastRecommend, walk, lastResponse,
                 discovery>>

\* part_005:166-185 for the call that waits, env being the outcome of its
\* request: the record is written to the cache as it is by now
\* (part_008:351-364 and 561)
LearningPathResumed(call, cache, env) ==
  LearningPathAfter(call.targetSkillName, call.userSkills,
                    ResolveFrom(cache, call.targetSkillName, None,
                                Answered(env, cache)))

\* part_008:351-364 and 561 with part_005:171-185: the request call number
\* c waits for is answered, and the call returns
LearningPathAnswer(c, env) ==
  /\ c <= Len(learningPath)
  /\ IsRunning(learningPath[c])
  /\ learningPath' =
       [learningPath EXCEPT
          ![c] = LearningPathStands(
                   learningPath[c].targetSkillName, learningPath[c].userSkills,
                   LearningPathResumed(learningPath[c], skillAnalysisCache, env))]
  /\ skillAnalysisCache' =
       CacheLeft(LearningPathResumed(learningPath[c], skillAnalysisCache, env))
  /\ UNCHANGED <<skills, nextId, treeSkills, treeNextId, calls, lastCheck,
                 prevCheck, lastQuery, lastOp, lastRecommend, walk, lastResponse,
                 discovery>>

NextLearning ==
  \/ \E skillData \in LearningSkillData : addSkill(skillData, MaxStoreSkills)
  \/ \E targetSkillName \in LearningTargets : StartLearningPath(targetSkillName)
  \/ \E c \in 1..MaxLearningPaths, env \in LearningEnvironments :
       LearningPathAnswer(c, env)
  \/ StartRecommend(NoContext)
  \/ \E env \in LearningEnvironments : RecommendAnswer(env)

SpecLearning == Init /\ [][NextLearning]_vars

-----------------------------------------------------------------------------
(* A skill and its dependency over time: store operations alternate with
   checks, and each check is kept together with the check before the last
   store operation and with the collection that earlier check saw. *)

\* the skills whose dependencies are watched, as the user adds them
ScenarioSkillData ==
  { [name |-> "TypeScript", proficiency |-> "Learning"],
    [name |-> "Cooking", proficiency |-> "Proficient"] }

\* the proficiency the user raises a skill to
ScenarioLevels == {"Proficient"}

\* outcomes of a request sent during the scenario: no answer, a typical
\* analysis, and an analysis whose lists hold a number between the names
ScenarioEnvironments ==
  { [reachable |-> FALSE], AnswerOf(O_typical), AnswerOf(O_mixed) }

OpsDone == IF lastOp = NoOp THEN 0 ELSE lastOp.nth

NameOfId(id) ==
  IF \E i \in 1..Len(skills) : skills[i].id = id
    THEN skills[CHOOSE i \in 1..Len(skills) : skills[i].id = id].name
    ELSE ""

\* a store operation of the scenario: the check before it becomes the earlier
\* check, and the operation is noted with the collection it started from
Noted(op) ==
  /\ OpsDone < MaxScenarioOps
  /\ lastOp' = [op |-> op.op, name |-> op.name, proficiency |-> op.proficiency,
                nth |-> OpsDone + 1, before |-> skills]
  /\ prevCheck' = IF lastCheck.ran THEN lastCheck ELSE [ran |-> FALSE]
  /\ lastCheck' = IF IsRunning(lastCheck) THEN lastCheck ELSE [ran |-> FALSE]
  /\ lastQuery' = [asked |-> FALSE]
  /\ UNCHANGED <<lastRecommend, walk, lastResponse, learningPath>>

\* store.ts:140-142, the user adds a skill
ScenarioAddSkill(skillData) ==
  /\ AddSkillStep(skillData, MaxStoreSkills)
  /\ Noted([op |-> "addSkill", name |-> skillData.name,
            proficiency |-> skillData.proficiency])
  /\ UNCHANGED discovery

\* Array.prototype.filter(s => s.id !== id)
WithoutMissingSkill(missingSkills, id) ==
  LET Other(s) == s.id # id
  IN SelectSeq(missingSkills, Other)

\* missing-skills-panel.tsx:44-52, the user adds a skill the panel lists: it
\* is added at Want to Learn and leaves the list.  The Add button is drawn
\* with the list, that is while no analysis runs (:145, :188) and while the
\* collection holds a skill (:74-88)
addMissingSkill(skill) ==
  /\ ~IsRunning(discovery)
  /\ Len(skills) > 0
  /\ AddSkillStep([name |-> skill.name, proficiency |-> "Want to Learn"],
                  MaxStoreSkills)
  /\ Noted([op |-> "addMissingSkill", name |-> skill.name,
            proficiency |-> "Want to Learn"])
  /\ discovery' = [discovery EXCEPT
                     !.missingSkills = WithoutMissingSkill(@, skill.id)]

\* store.ts:143-145
ScenarioUpdateSkillProficiency(id, proficiency) ==
  /\ UpdateSkillProficiencyStep(id, proficiency)
  /\ Noted([op |-> "updateSkillProficiency", name |-> NameOfId(id),
            proficiency |-> proficiency])
  /\ UNCHANGED discovery

\* store.ts:146-148
ScenarioRemoveSkill(id) ==
  /\ RemoveSkillStep(id)
  /\ Noted([op |-> "removeSkill", name |-> NameOfId(id), proficiency |-> ""])
  /\ UNCHANGED discovery

\* part_008:567-587, the check is called for the collection as it is, while
\* no other check of the scenario waits
ScenarioCheck ==
  /\ ~IsRunning(lastCheck)
  /\ CallCheck(1, prevCheck)

ScenarioAnswer == \E env \in ScenarioEnvironments : CheckAnswer("last", env)

NextScenario ==
  \/ \E skillData \in ScenarioSkillData : ScenarioAddSkill(skillData)
  \/ \E k \in 1..Len(discovery.missingSkills) :
       addMissingSkill(discovery.missingSkills[k])
  \/ \E i \in 1..Len(skills), proficiency \in ScenarioLevels :
       ScenarioUpdateSkillProficiency(skills[i].id, proficiency)
  \/ \E i \in 1..Len(skills) : ScenarioRemoveSkill(skills[i].id)
  \/ ScenarioCheck
  \/ ScenarioAnswer
  \/ analyzeMissingSkills
  \/ \E env \in ScenarioEnvironments : DiscoveryAnswer(env)

SpecScenario == Init /\ [][NextScenario]_vars

-----------------------------------------------------------------------------
(* The recommender for collections that hold what it would offer *)

\* React, whose rule enables Next.js; and one skill out of the list of each
\* source: Next.js (enabled by React), Testing (complementary to frontend
\* skills and suggested to a developer), Cloud Computing (trending) and Vue.js
\* (similar to React)
HeldSkillData ==
  { [name |-> "React", proficiency |-> "Mastered"],
    [name |-> "next.js "],
    [name |-> "Testing", proficiency |-> "Learning"],
    [name |-> "cloud computing"],
    [name |-> "Vue.js", proficiency |-> "Proficient"] }

HeldContexts == { NoContext, [given |-> TRUE, currentRole |-> "Developer"] }

HeldEnvironments == { [reachable |-> FALSE], AnswerOf(O_cook) }

NextHeld ==
  \/ \E d \in HeldSkillData : addSkill(d, MaxStoreSkills)
  \/ \E c \in HeldContexts : StartRecommend(c)
  \/ \E env \in HeldEnvironments : RecommendAnswer(env)

SpecHeld == Init /\ [][NextHeld]_vars

-----------------------------------------------------------------------------
(* The learning path, part_005:267-364.  generateLearningPath walks every    *)
(* target with dynamicTopologicalSort; the recursion is kept as a stack of  *)
(* frames, and one step runs a call up to its next await or return.         *)
(*   [kind |-> "enter", skillName]   a call that has not started            *)
(*   [kind |-> "await", skillName]   a call that waits for the answer to    *)
(*       the request getSkillDependencies sent for skillName                *)
(*   [kind |-> "loop", skillName, skillDep, next, path]                     *)
(*       a call past its await of getSkillDependencies, about to walk       *)
(*       dependency number next, with the path gathered so far              *)
(* A call that throws is caught by its caller (part_005:350-363, and          *)
(* :278-290 for a target).                                                   *)

Enter(skillName) == [kind |-> "enter", skillName |-> skillName]

\* a set of visited names that keeps the names as they are spelled
VisitKey_AsSpelled(skillName) == skillName

\* part_005:306 and :313, the key under which a name is visited
VisitKey(skillName) == normalizeSkillName(skillName)

\* part_005:335-347, path.push of the current skill
WithCurrentSkill(path, rec) == Append(path, rec)

\* part_005:336-345
PathRecord(n, skillName, skillDep) ==
  [id |-> RecommendationId("path", n), skillName |-> skillName,
   type |-> "prerequisite", reason |-> "Required for learning path",
   difficulty |-> skillDep.difficulty, estimatedHours |-> skillDep.estimatedHours,
   category |-> skillDep.category,
   priority |-> calculatePriorityFromDifficulty(skillDep.difficulty)]

\* part_005:315-319: userSkill && hasMeaningfulProficiency(userSkill.proficiency)
HeldMeaningfully(userSkills, skillName) ==
  /\ MapHas(createSkillMap(userSkills), skillName)
  /\ hasMeaningfulProficiency(
       createSkillMap(userSkills)[normalizeSkillName(skillName)].proficiency)

\* part_005:294 with :476-489: removeDuplicateRecommendations normalizes the
\* skillName of every record (:481), which throws for one that is no
\* string; generateLearningPath then rejects and returns no path
ReturnPath(w, path) ==
  IF \E k \in 1..Len(path) : IsNotString(path[k].skillName)
    THEN [w EXCEPT !.status = "rejected", !.path = path, !.stack = <<>>]
    ELSE [w EXCEPT !.status = "done", !.path = path, !.stack = <<>>,
                   !.result = removeDuplicateRecommendations(path)]

\* part_005:274: the loop over the targets goes on, path being what has
\* been pushed so far; the next target starts with a fresh visited set
\* (:304), and after the last one the path is returned
NextTarget(w, path) ==
  IF w.t < Len(w.targets)
    THEN [w EXCEPT !.path = path,
                   !.t = w.t + 1,
                   !.stack = <<Enter(w.targets[w.t + 1])>>,
                   !.visited = {}, !.resolved = <<>>,
                   !.listed = [n \in {} |-> <<>>]]
    ELSE ReturnPath(w, path)

\* part_005:276-277: the walk of target number w.t returned skillPath,
\* which is pushed on the path
TargetDone(w, skillPath) ==
  NextTarget([w EXCEPT !.finished =
                Append(w.finished,
                       [target |-> w.targets[w.t], skillPath |-> skillPath,
                        resolved |-> w.resolved, listed |-> w.listed,
                        visited |-> w.visited])],
             w.path \o skillPath)

\* part_005:329-332: the call on top of the stack returns ret to its caller,
\* which pushes it on its own path
WalkReturn(w, ret) ==
  IF Len(w.stack) = 1 THEN TargetDone(w, ret)
  ELSE [w EXCEPT !.stack =
          [k \in 1..(Len(w.stack) - 1) |->
             IF k = Len(w.stack) - 1
               THEN [w.stack[k] EXCEPT !.path = w.stack[k].path \o ret]
               ELSE w.stack[k]]]

\* part_005:322-327 done: the call on top goes on with the record r resolved
Resolved(w, skillName, r) ==
  [walk |-> [w EXCEPT !.stack[Len(w.stack)] =
                        [kind |-> "loop", skillName |-> skillName,
                         skillDep |-> r.result, next |-> 1, path |-> <<>>],
                      !.resolved = Append(w.resolved, normalizeSkillName(skillName)),
                      !.listed = [n \in DOMAIN w.listed \cup {normalizeSkillName(skillName)} |->
                                    IF n = normalizeSkillName(skillName)
                                      THEN r.result.dependencies ELSE w.listed[n]],
                      !.requests = w.requests + Sent(r)],
   cache |-> r.cache]

\* part_005:322 with part_008:546-559: the record is found without a
\* request and the call goes on, or the request is sent (part_008:351) and
\* the call waits for the answer
AwaitOrResolved(w, skillName, r) ==
  IF IsWaiting(r.cache)
    THEN [walk |-> [w EXCEPT !.stack[Len(w.stack)] =
                               [kind |-> "await", skillName |-> skillName]],
          cache |-> r.cache.cache]
    ELSE Resolved(w, skillName, r)

\* part_005:306-327, a call from its start to its first await or return; w
\* has the name among the visited ones already
EnterVisited(w, skillName, cache) ==
  IF HeldMeaningfully(w.userSkills, skillName)
    THEN [walk |-> WalkReturn(w, <<>>), cache |-> cache]
    ELSE AwaitOrResolved(w, skillName, getSkillDependencies(cache, skillName, Pending))

\* part_005:352-362, what the catch of dynamicTopologicalSort returns
FoundationalRecord(n, skillName) ==
  [id |-> RecommendationId("path", n), skillName |-> skillName,
   type |-> "prerequisite", reason |-> "Foundational skill", difficulty |-> 3,
   estimatedHours |-> 15, category |-> "general", priority |-> "medium"]

\* part_005:281-290, what the catch of generateLearningPath pushes
TargetRecord(n, targetSkill) ==
  [id |-> RecommendationId("path", n), skillName |-> targetSkill,
   type |-> "prerequisite", reason |-> "Target skill", difficulty |-> 5,
   estimatedHours |-> 20, category |-> "general", priority |-> "high"]

\* part_005:306 for a name that is no string: normalizeSkillName throws
\* outside the try of the call, which rejects with nothing visited.  For a
\* dependency the await of the caller (:331) throws inside the caller's
\* try, and its catch (:350-363) returns the one record for the caller's
\* own skill in place of the path it had gathered.  For a target the catch
\* of generateLearningPath (:278-290) pushes its record, whose skillName is
\* the target as it is, and the loop goes on with the next target.
EnterThrows(w) ==
  IF Len(w.stack) = 1
    THEN NextTarget([w EXCEPT !.ids = w.ids + 1],
                    Append(w.path, TargetRecord(w.ids + 1, w.targets[w.t])))
    ELSE WalkReturn([w EXCEPT !.ids = w.ids + 1,
                              !.stack = SubSeq(w.stack, 1, Len(w.stack) - 1)],
                    <<FoundationalRecord(w.ids + 1,
                                         w.stack[Len(w.stack) - 1].skillName)>>)

\* part_005:306-313: the name is normalized, which throws for a name that
\* is no string; a name visited before returns nothing; any other name is
\* visited now
EnterStep(w, skillName, cache) ==
  IF IsNotString(skillName)
    THEN [walk |-> EnterThrows(w), cache |-> cache]
  ELSE IF VisitKey(skillName) \in w.visited
    THEN [walk |-> WalkReturn(w, <<>>), cache |-> cache]
    ELSE EnterVisited([w EXCEPT !.visited = w.visited \cup {VisitKey(skillName)}],
                      skillName, cache)

\* part_008:351-364 and 561-563: the answer env has come; the record built
\* from it is written to the cache as it is by now, and the call goes on
AnswerStep(w, skillName, cache, env) ==
  Resolved(w, skillName,
           ResolveByInference(cache, skillName, analyzeSkillWithLLM(skillName, env)))

\* part_005:329-349, frame being the call on top of the stack
LoopStep(w, frame) ==
  IF frame.next <= Len(frame.skillDep.dependencies)
    THEN [w EXCEPT !.stack = Append([w.stack EXCEPT ![Len(w.stack)].next = frame.next + 1],
                                    Enter(frame.skillDep.dependencies[frame.next]))]
    ELSE WalkReturn([w EXCEPT !.ids = w.ids + 1],
                    WithCurrentSkill(frame.path,
                                     PathRecord(w.ids + 1, frame.skillName, frame.skillDep)))

\* one step of the call on top of the stack
StepOf(w, frame, cache) ==
  IF frame.kind = "enter" THEN EnterStep(w, frame.skillName, cache)
  ELSE [walk |-> LoopStep(w, frame), cache |-> cache]

\* the walk waits for the answer to a request
WalkAwaits ==
  /\ walk.status = "running"
  /\ walk.stack[Len(walk.stack)].kind = "await"

WalkMoves(st) ==
  /\ walk' = st.walk
  /\ skillAnalysisCache' = st.cache

\* part_005:267-273, generateLearningPath(targetSkills, skills) is called
StartPath(targetSkills) ==
  /\ walk.status # "running"
  /\ walk.walks < MaxWalks
  /\ walk' = [status |-> "running", walks |-> walk.walks + 1,
              userSkills |-> skills, targets |-> targetSkills, t |-> 1,
              stack |-> <<Enter(targetSkills[1])>>, visited |-> {},
              resolved |-> <<>>, listed |-> [n \in {} |-> <<>>],
              path |-> <<>>, finished |-> <<>>, result |-> <<>>,
              ids |-> 0, requests |-> 0]
  /\ UNCHANGED <<skills, nextId, treeSkills, treeNextId, skillAnalysisCache, calls,
                 lastCheck, prevCheck, lastQuery, lastOp, lastRecommend, lastResponse, discovery,
                 learningPath>>

\* part_005:300-364, the walk goes on to its next await or return
WalkStep ==
  /\ walk.status = "running"
  /\ ~WalkAwaits
  /\ WalkMoves(StepOf(walk, walk.stack[Len(walk.stack)], skillAnalysisCache))
  /\ UNCHANGED <<skills, nextId, treeSkills, treeNextId, calls, lastCheck, prevCheck,
                 lastQuery, lastOp, lastRecommend, lastResponse, discovery, learningPath>>

\* the request the walk waits for is answered: env is what the inference
\* service did
WalkAnswer(env) ==
  /\ WalkAwaits
  /\ WalkMoves(AnswerStep(walk, walk.stack[Len(walk.stack)].skillName,
                          skillAnalysisCache, env))
  /\ UNCHANGED <<skills, nextId, treeSkills, treeNextId, calls, lastCheck, prevCheck,
                 lastQuery, lastOp, lastRecommend, lastResponse, discovery, learningPath>>

\* Between two steps of a walk that does not wait for an answer nothing else
\* runs: its continuations are microtasks, and a store operation is a task
\* of its own.  The store is open while no walk runs or the walk waits.
StoreOpen == walk.status # "running" \/ WalkAwaits

WalkSkillData ==
  { [name |-> "Cooking", proficiency |-> "Mastered"], [name |-> "Cooking "] }

\* the targets of a call: one name, a name whose prerequisites the service
\* lists, two names, and a list with an entry that is no string
TargetLists ==
  { <<"Cooking">>, <<"Stew">>, <<"Baking", "Cooking">>, <<Seven, "Cooking">> }

\* an answer that lists the given dependencies
O_requires(dependencies) ==
  AnalysisObject(Arr(dependencies), Str("needs"), Num(4), Num(12), Arr(<<>>),
                 Str("culinary"))

\* the service cannot be reached, or it answers with a list of dependencies:
\* names in cycles and in other spellings, and a list with an entry that is
\* no string, which validatedAnalysis keeps (route.ts:96-103)
WalkEnvironments ==
  { [reachable |-> FALSE] }
  \cup { AnswerOf(O_requires(d)) :
           d \in { <<"cooking ", "Baking">>, <<"Baking", Seven>>,
                   <<Seven, "Baking">> } }

WalkSteps == WalkStep \/ \E env \in WalkEnvironments : WalkAnswer(env)

NextWalk ==
  \/ \E d \in WalkSkillData : StoreOpen /\ addSkill(d, MaxStoreSkills)
  \/ \E id \in AllIds, p \in {"Learning"} :
       StoreOpen /\ updateSkillProficiency(id, p)
  \/ \E targetSkills \in TargetLists : StartPath(targetSkills)
  \/ WalkSteps

SpecWalk == Init /\ [][NextWalk]_vars

\* A step of the walk is a continuation on the event loop: once the promise
\* it awaits is settled it runs, and a request to the inference service is
\* settled by an answer or by a failure.  A walk that can step does step.
SpecWalkFair == SpecWalk /\ WF_vars(WalkSteps)

-----------------------------------------------------------------------------
(* The analysis endpoint as a whole, route.ts:11-208: requests with and      *)
(* without a custom prompt, and the upstream content as the text it is.     *)
(*   request : [kind |-> "unreadable"]        request.json() rejects        *)
(*             [kind |-> "null"]              the body is the JSON null     *)
(*             [kind |-> "object", body |-> b]  b has some of the fields    *)
(*                                            skillName, prompt, userContext*)
(*   upstream: [kind |-> "network_error"], [kind |-> "status", status |-> n],*)
(*             [kind |-> "malformed"]   the completion is not JSON, or has  *)
(*                                      no choices                          *)
(*             [kind |-> "ok", content |-> text]                            *)

\* JSON texts of suggestion objects, and of an analysis
T_linux == "{\"name\": \" Linux \", \"reason\": \"kernel\", \"confidence\": \"high\", \"category\": \"infrastructure\"}"
T_yaml == "{\"name\": \"YAML\", \"confidence\": \"certain\"}"
T_noname == "{\"reason\": \"no name\"}"
T_analysis == "{\"dependencies\": [\"Linux\"], \"difficulty\": 15, \"estimatedHours\": 0}"

S_linux ==
  Obj([name |-> Str(" Linux "), reason |-> Str("kernel"), confidence |-> Str("high"),
       category |-> Str("infrastructure")])
S_yaml == Obj([name |-> Str("YAML"), confidence |-> Str("certain")])
S_noname == Obj([reason |-> Str("no name")])

\* the arrays the contents of the model carry, as text and as value
ArrayTexts ==
  ("[" \o T_linux \o "]" :> Arr(<<S_linux>>))
  @@ ("[" \o T_linux \o ", " \o T_yaml \o "]" :> Arr(<<S_linux, S_yaml>>))
  @@ ("[" \o T_noname \o ",\n" \o T_linux \o ",\n" \o T_yaml \o "]"
        :> Arr(<<S_noname, S_linux, S_yaml>>))
  @@ ("[]" :> Arr(<<>>))
  @@ ("[\"Linux\"]" :> Arr(<<Str("Linux")>>))

\* JSON.parse on the texts of the model: every text that is JSON, with its
\* value; any other text makes JSON.parse throw
JsonOf ==
  ArrayTexts
  @@ (T_linux :> S_linux) @@ (T_yaml :> S_yaml) @@ (T_noname :> S_noname)
  @@ (T_analysis :> Obj([dependencies |-> Arr(<<"Linux">>), difficulty |-> Num(15),
                         estimatedHours |-> Num(0)]))
  @@ ("null" :> JNull) @@ ("7" :> Num(7))

\* JSON.parse(text); white space around the value is allowed
JSONparse(text) ==
  IF trim(text) \in DOMAIN JsonOf
    THEN [ok |-> TRUE, value |-> JsonOf[trim(text)]]
    ELSE [ok |-> FALSE]

\* route.ts:67, response.match(/\{[\s\S]*\}/): from the first '{' to the last
\* '}' behind it
JsonMatch(text) ==
  LET opens == {i \in 1..Len(text) : CharAt(text, i) = "{"}
      first == CHOOSE i \in opens : \A j \in opens : i <= j
      closes == {i \in 1..Len(text) : CharAt(text, i) = "}" /\ i > first}
  IN IF opens = {} \/ closes = {} THEN [matched |-> FALSE]
     ELSE [matched |-> TRUE,
           text |-> SubSeq(text, first, CHOOSE i \in closes : \A j \in closes : j <= i)]

\* route.ts:65-72
ExtractJson(text, jsonMatch) ==
  IF jsonMatch.matched THEN JSONparse(jsonMatch.text) ELSE JSONparse(text)

\* String.prototype.split('\n')
RECURSIVE SplitLines(_)
SplitLines(text) ==
  LET breaks == {i \in 1..Len(text) : CharAt(text, i) = "\n"}
  IN IF breaks = {} THEN <<text>>
     ELSE <<SubSeq(text, 1, (CHOOSE i \in breaks : \A j \in breaks : i <= j) - 1)>>
          \o SplitLines(SubSeq(text, (CHOOSE i \in breaks : \A j \in breaks : i <= j) + 1,
                               Len(text)))

Digits == {"0", "1", "2", "3", "4", "5", "6", "7", "8", "9"}

\* [\s\-\*\d\.]
IsBulletChar(c) == IsWhitespace(c) \/ c \in {"-", "*", "."} \/ c \in Digits

\* [\s\-\:]
IsSeparatorChar(c) == IsWhitespace(c) \/ c \in {"-", ":"}

\* the length of the longest prefix of line made of bullet characters
RECURSIVE BulletPrefix(_)
BulletPrefix(line) ==
  IF Len(line) > 0 /\ IsBulletChar(CharAt(line, 1))
    THEN 1 + BulletPrefix(SubSeq(line, 2, Len(line)))
    ELSE 0

RECURSIVE SkipSeparators(_)
SkipSeparators(s) ==
  IF Len(s) > 0 /\ IsSeparatorChar(CharAt(s, 1))
    THEN SkipSeparators(SubSeq(s, 2, Len(s)))
    ELSE s

\* route.ts:190, line.match(/^[\s\-\*\d\.]*(.+?)[\s\-\:]*(.*)$/): the lazy
\* group takes one character, the first one behind the bullet characters, or
\* the last bullet character when the line has nothing else; p is the length
\* of the bullet prefix
LineMatch(line, p) ==
  IF Len(line) = 0 THEN [matched |-> FALSE]
  ELSE IF p = Len(line)
    THEN [matched |-> TRUE, g1 |-> CharAt(line, Len(line)), g2 |-> ""]
  ELSE [matched |-> TRUE, g1 |-> CharAt(line, p + 1),
        g2 |-> SkipSeparators(SubSeq(line, p + 2, Len(line)))]

\* route.ts:191-203 for one line, m being its match and name the trimmed
\* first group
ScrapedFrom(m, name, skillName) ==
  IF Len(name) > 0 /\ Len(name) < 50 /\ ~includes(name, "prerequisite")
     /\ ~includes(name, ":")
    THEN << Obj([name |-> Str(name),
                 reason |-> Str(IF m.g2 # "" THEN trim(m.g2)
                                ELSE "Prerequisite for " \o skillName),
                 confidence |-> Str("medium"), category |-> Str("other")]) >>
    ELSE <<>>

\* route.ts:188-204 for one line
ScrapeLine(m, skillName) ==
  IF m.matched THEN ScrapedFrom(m, trim(m.g1), skillName) ELSE <<>>

\* route.ts:188-205, the loop over the lines from position i on
RECURSIVE ScrapeLines(_, _, _)
ScrapeLines(lines, i, skillName) ==
  IF i > Len(lines) THEN <<>>
  ELSE ScrapeLine(LineMatch(lines[i], BulletPrefix(lines[i])), skillName)
       \o ScrapeLines(lines, i + 1, skillName)

\* route.ts:184-208
extractSkillsFromText(text, skillName) ==
  Slice(ScrapeLines(SplitLines(text), 1, skillName), 5)

\* JavaScript truthiness of a JSON value
Truthy(v) ==
  /\ v.t \notin {"undefined", "null"}
  /\ v.t = "string" => v.str # ""
  /\ v.t = "number" => v.num # 0

\* route.ts:164-169, the filter
IsSuggestion(suggestion) ==
  /\ suggestion.t = "object"
  /\ Field(suggestion, "name").t = "string"
  /\ Field(suggestion, "name").str # ""

\* route.ts:170-177, the map
CleanSuggestion(suggestion) ==
  [name |-> trim(suggestion.obj.name.str),
   reason |-> IF Truthy(Field(suggestion, "reason")) THEN Field(suggestion, "reason")
              ELSE Str("Prerequisite skill identified by AI analysis"),
   confidence |-> IF Field(suggestion, "confidence")
                       \in {Str("high"), Str("medium"), Str("low")}
                    THEN Field(suggestion, "confidence") ELSE Str("medium"),
   category |-> IF Truthy(Field(suggestion, "category")) THEN Field(suggestion, "category")
                ELSE Str("other")]

\* Array.prototype.filter(IsSuggestion).map(CleanSuggestion)
CleanSuggestions(list) ==
  LET F[i \in 0..Len(list)] ==
        IF i = 0 THEN <<>>
        ELSE IF IsSuggestion(list[i]) THEN Append(F[i - 1], CleanSuggestion(list[i]))
        ELSE F[i - 1]
  IN F[Len(list)]

\* route.ts:158-179, for a JSON value
validateSuggestions(suggestions) ==
  IF suggestions.t # "array" THEN <<>>
  ELSE Slice(CleanSuggestions(suggestions.arr), 5)

\* a catch that passes the message of the error on
FailureResponse_WithDetail(error) == [status |-> 500, body |-> [error |-> error]]

\* route.ts:118-124, the catch: the error is logged, the answer is fixed
FailureResponse(error) == [status |-> 500, body |-> ErrorBody]

\* route.ts:84-89 and :110-115
SuggestionsResponse(body, validatedSuggestions) ==
  [status |-> 200,
   body |-> [success |-> TRUE, suggestions |-> validatedSuggestions,
             skillName |-> body.skillName,
             userContext |-> IF "userContext" \in DOMAIN body THEN body.userContext
                             ELSE Undefined]]

HasPrompt(body) == "prompt" \in DOMAIN body /\ body.prompt # ""

\* a parse failure is an error for every request
ParseFailure_AlwaysError(body, response) ==
  FailureResponse("Invalid JSON response from LLM")

\* route.ts:73-91, the catch of the parse
ParseFailure(body, response) ==
  IF HasPrompt(body)
    THEN FailureResponse("Invalid JSON response from LLM")
    ELSE SuggestionsResponse(body,
           validateSuggestions(Arr(extractSkillsFromText(response, body.skillName))))

\* route.ts:93-116, analysis being what was parsed
AnalysisResponse(body, analysis) ==
  IF HasPrompt(body)
    THEN IF analysis.t = "null"
           THEN FailureResponse("Cannot read properties of null")
           ELSE [status |-> 200, body |-> validatedAnalysis(analysis, body.skillName)]
    ELSE SuggestionsResponse(body, validateSuggestions(analysis))

\* route.ts:63-116, parsed being the outcome of the extraction
AfterExtraction(body, response, parsed) ==
  IF parsed.ok THEN AnalysisResponse(body, parsed.value)
  ELSE ParseFailure(body, response)

\* route.ts:29-116, for a body with a skillName
Analyze(body, upstream) ==
  IF upstream.kind = "network_error" THEN FailureResponse("fetch failed")
  ELSE IF upstream.kind = "status"
    THEN FailureResponse("LLM API error: " \o ToString(upstream.status))
  ELSE IF upstream.kind = "malformed"
    THEN FailureResponse("Unexpected token < in JSON at position 0")
  ELSE IF upstream.content = "" THEN FailureResponse("No response from LLM")
  ELSE AfterExtraction(body, upstream.content,
                       ExtractJson(upstream.content, JsonMatch(upstream.content)))

\* route.ts:11-125, the handler
HandlePOST(request, upstream) ==
  IF request.kind = "unreadable"
    THEN FailureResponse("Unexpected end of JSON input")
  ELSE IF request.kind = "null"
    THEN FailureResponse("Cannot destructure property 'skillName' of 'body'")
  ELSE IF "skillName" \notin DOMAIN request.body \/ request.body.skillName = ""
    THEN [status |-> 400, body |-> [error |-> "Missing skillName"]]
  ELSE Analyze(request.body, upstream)

Requests ==
  { [kind |-> "unreadable"], [kind |-> "null"] }
  \cup { [kind |-> "object", body |-> b] :
           b \in { [prompt |-> "Analyze"],
                   [skillName |-> ""],
                   [skillName |-> "Kubernetes"],
                   [skillName |-> "Kubernetes", userContext |-> Obj([role |-> Str("developer")])],
                   [skillName |-> "Cooking", prompt |-> ""],
                   [skillName |-> "Cooking", prompt |-> "Analyze"] } }

ContentTexts ==
  DOMAIN ArrayTexts
  \cup { "Here are the skills:\n[" \o T_linux \o "]\nGood luck",
         "Sure: [" \o T_linux \o ", " \o T_yaml \o "]",
         T_linux, T_analysis, "null", "7",
         "not json at all", "see {this} one",
         "- Docker: containers\n2. Linux\n\n   \n: odd\n* YAML - markup\nGit\nBash\nHelm" }

UpstreamTexts ==
  { [kind |-> "network_error"], [kind |-> "status", status |-> 503],
    [kind |-> "malformed"], [kind |-> "ok", content |-> ""] }
  \cup { [kind |-> "ok", content |-> c] : c \in ContentTexts }

\* route.ts:11-125: a request is answered
Post(request, upstream) ==
  /\ lastResponse' = [sent |-> TRUE, request |-> request, upstream |-> upstream,
                      response |-> HandlePOST(request, upstream)]
  /\ UNCHANGED <<skills, nextId, treeSkills, treeNextId, skillAnalysisCache, calls,
                 lastCheck, prevCheck, lastQuery, lastOp, lastRecommend, walk,
                 discovery, learningPath>>

NextEndpoint == \E request \in Requests, upstream \in UpstreamTexts : Post(request, upstream)

SpecEndpoint == Init /\ [][NextEndpoint]_vars

-----------------------------------------------------------------------------
(* Properties of the resolver *)

\* evaluated once for the names in use
UnmatchedNames == {n \in ResolveNames : getAlgorithmicDependencies(n) = None}
StaticNames == {n \in ResolveNames : InStaticTable(n)}
NormalForm == [n \in ResolveNames |-> normalizeSkillName(n)]

Unmatched(skillName) == skillName \in UnmatchedNames

\* C1: a resolution of a name that is in the static rule table or that the
\* pattern matcher matches never sends a request to the remote service.
C1_NoRequestForKnownNames ==
  \A c \in 1..Len(calls) :
    (calls[c].name \in StaticNames \/ ~Unmatched(calls[c].name))
      => ~calls[c].sent

\* What does hold: the pattern matcher alone decides that no request is sent.
PatternMatchedNeverSends ==
  \A c \in 1..Len(calls) :
    ~Unmatched(calls[c].name)
      => /\ ~calls[c].sent
         /\ calls[c].state = "done"
         /\ calls[c].result.source = "algorithmic"

\* d completed by remote inference before c started, for the same normalized
\* name, a name the pattern matcher does not match
ResolvedEarlierByInference(c, d) ==
  /\ d \in calls[c].doneBefore
  /\ calls[d].result.source = "llm"
  /\ Unmatched(calls[d].name)
  /\ NormalForm[calls[c].name] = NormalForm[calls[d].name]

\* C2: once a remote-inferred resolution of an unmatched name has completed,
\* every resolution started later for the same lowercase-trimmed name returns
\* at once, with a record tagged 'cache', and sends no request.
C2_CachedAfterInference ==
  \A c \in 1..Len(calls), d \in 1..Len(calls) :
    ResolvedEarlierByInference(c, d)
      => /\ ~calls[c].sent
         /\ calls[c].state = "done"
         /\ calls[c].result.source = "cache"

\* a later call, spelled differently from the inferred one, was served from
\* the cache
C2_Witness ==
  \E c \in 1..Len(calls), d \in 1..Len(calls) :
    /\ ResolvedEarlierByInference(c, d)
    /\ calls[c].name # calls[d].name
    /\ calls[c].state = "done"
    /\ calls[c].result.source = "cache"

\* the failures of remote inference: the endpoint cannot be reached, the
\* upstream call fails or answers with a non-success status, or the content
\* is empty, is not JSON, or is JSON that is not an object
IsFailure(env) ==
  \/ ~env.reachable
  \/ env.upstream.kind # "ok"
  \/ env.upstream.content.shape \in {"empty", "prose", "prose_braces", "bare"}

DegradedDefault(r) ==
  /\ r.dependencies = <<>>
  /\ r.enables = <<>>
  /\ r.difficulty = 5
  /\ r.estimatedHours = 20
  /\ r.category = "general"
  /\ r.source = "llm"

\* C3: every completed resolution returns a record, and a resolution whose
\* remote inference failed returns the degraded default: no dependencies, no
\* enables, difficulty 5, 20 hours, category 'general', source 'llm'.
C3_FallbackOnFailure ==
  \A c \in DoneCalls :
    /\ calls[c].result # None
    /\ (calls[c].env # None /\ IsFailure(calls[c].env))
         => DegradedDefault(calls[c].result)

\* a resolution completed on non-JSON upstream content
C3_Witness ==
  \E c \in DoneCalls :
    /\ calls[c].env = [reachable |-> TRUE,
                       upstream |-> [kind |-> "ok", content |-> [shape |-> "prose"]]]
    /\ DegradedDefault(calls[c].result)

\* C4: whatever the name and the upstream response, the record a resolution
\* returns has difficulty in 1..10 and estimatedHours >= 1, be it
\* pattern-matched, cached, inferred or the degraded default.
C4_RangesHold ==
  \A c \in DoneCalls :
    /\ calls[c].result.difficulty \in 1..10
    /\ calls[c].result.estimatedHours >= 1

\* an answer with difficulty 15 and 0 hours was clamped, cached, and then
\* served from the cache
C4_Witness ==
  \E c \in DoneCalls, d \in DoneCalls :
    /\ calls[d].env # None
    /\ calls[d].env.reachable
    /\ calls[d].env.upstream = [kind |-> "ok",
                                content |-> [shape |-> "object", value |-> O_high]]
    /\ calls[d].result.difficulty = 10
    /\ calls[d].result.estimatedHours = 1
    /\ d \in calls[c].doneBefore
    /\ calls[c].result.source = "cache"
    /\ calls[c].result.difficulty = 10

-----------------------------------------------------------------------------
(* Properties of the consistency checker *)

\* the dependency the n-th warning of check c is about, and its subject
DependencyAt(c, n) ==
  c.resolved[c.origins[n][1]].dependencies[c.origins[n][2]]

SubjectAt(c, n) == c.userSkills[c.origins[n][1]]

Knows(skill) == skill.proficiency \in {"Learning", "Proficient", "Mastered"}

\* the skills of the collection the last check was called with whose name
\* is dependency, ignoring case and surrounding whitespace
Matching(dependency) ==
  {k \in 1..Len(lastCheck.userSkills) :
     trim(LowerCaseChars(lastCheck.userSkills[k].name)) = trim(LowerCaseChars(dependency))}

FirstMatching(dependency) ==
  lastCheck.userSkills[CHOOSE k \in Matching(dependency) :
                          \A q \in Matching(dependency) : k <= q]

\* the warning a listed dependency calls for
ExpectedType(dependency) ==
  IF Matching(dependency) = {} THEN "missing_dependency"
  ELSE IF FirstMatching(dependency).proficiency = "Want to Learn"
    THEN "proficiency_mismatch"
  ELSE "none"

\* the warnings of the last check whose subject is skill i and whose
\* dependency is D
WarningsAbout(i, D) ==
  {n \in 1..Len(lastCheck.warnings) :
     lastCheck.origins[n][1] = i /\ DependencyAt(lastCheck, n) = D}

\* C5: the check returns exactly these warnings and no others: for every
\* skill S at Learning or above and every dependency D (a name) listed in
\* the record resolved for S, exactly one warning about (S, D) when D calls
\* for one -- missing_dependency (medium) when no collection skill matches,
\* proficiency_mismatch (low) when the matching skill is at Want to Learn --
\* and none when the matching skill is at Learning or above; a pair never
\* gets both types and a skill at Want to Learn is never a subject.
C5_ExactlyTheseWarnings ==
  lastCheck.ran =>
    LET W == lastCheck.warnings
        O == lastCheck.origins
    IN /\ Len(lastCheck.resolved) = Len(lastCheck.userSkills)
       /\ Len(W) = Len(O)
       /\ \A i \in 1..Len(lastCheck.userSkills) :
            Knows(lastCheck.userSkills[i]) =>
              \A j \in 1..Len(lastCheck.resolved[i].dependencies) :
                LET D == lastCheck.resolved[i].dependencies[j]
                IN ~IsNotString(D) =>
                     Cardinality(WarningsAbout(i, D))
                       = IF ExpectedType(D) = "none" THEN 0 ELSE 1
       /\ \A n \in 1..Len(W) :
            /\ W[n].type = ExpectedType(DependencyAt(lastCheck, n))
            /\ W[n].severity = IF W[n].type = "missing_dependency" THEN "medium"
                               ELSE "low"
            /\ W[n].skillName = SubjectAt(lastCheck, n).name
            /\ includes(W[n].message, DependencyAt(lastCheck, n))
            /\ SubjectAt(lastCheck, n).proficiency # "Want to Learn"
       /\ \A n, m \in 1..Len(W) :
            (/\ O[n][1] = O[m][1]
             /\ trim(LowerCaseChars(DependencyAt(lastCheck, n)))
                  = trim(LowerCaseChars(DependencyAt(lastCheck, m))))
              => W[n].type = W[m].type

\* the case of C5 that fails on a list which holds an entry that is no
\* name: a dependency listed after the entry calls for a warning and gets
\* none
C5_ListedAfterNoName ==
  /\ lastCheck.ran
  /\ \E i \in 1..Len(lastCheck.userSkills) :
       /\ Knows(lastCheck.userSkills[i])
       /\ \E j, k \in 1..Len(lastCheck.resolved[i].dependencies) :
            /\ j < k
            /\ IsNotString(lastCheck.resolved[i].dependencies[j])
            /\ ExpectedType(lastCheck.resolved[i].dependencies[k]) # "none"
            /\ WarningsAbout(i, lastCheck.resolved[i].dependencies[k]) = {}

\* the case of C5 that fails on a list which names a dependency twice: the
\* pair gets two warnings
C5_ListedTwice ==
  /\ lastCheck.ran
  /\ \E i \in 1..Len(lastCheck.userSkills), D \in {"Docker"} :
       Cardinality(WarningsAbout(i, D)) = 2

\* one name contains the other, ignoring case
SubstringMatch(a, b) ==
  \/ includes(LowerCaseChars(a), LowerCaseChars(b))
  \/ includes(LowerCaseChars(b), LowerCaseChars(a))

\* C6: the check emits no missing_dependency warning for a dependency that a
\* collection skill's name matches case-insensitively or by substring.
C6_SubstringTolerantMatch ==
  lastCheck.ran =>
    \A n \in 1..Len(lastCheck.warnings) :
      lastCheck.warnings[n].type = "missing_dependency"
        => ~\E k \in 1..Len(lastCheck.userSkills) :
              SubstringMatch(lastCheck.userSkills[k].name, DependencyAt(lastCheck, n))

RanChecks == {c \in {prevCheck, lastCheck} : c.ran}

\* C7: warnings of the same subject id, dependency name and type carry the
\* same id, in one check and across checks, and a check called after another
\* check of the same collection has returned returns the same list of
\* warnings.
C7_StableWarnings ==
  \A c, d \in RanChecks :
    /\ \A n \in 1..Len(c.warnings), m \in 1..Len(d.warnings) :
         (/\ SubjectAt(c, n).id = SubjectAt(d, m).id
          /\ DependencyAt(c, n) = DependencyAt(d, m)
          /\ c.warnings[n].type = d.warnings[m].type)
           => c.warnings[n].id = d.warnings[m].id
    /\ (c.nth \in d.returned /\ c.userSkills = d.userSkills)
         => d.warnings = c.warnings

\* the warnings of the bulk check whose skillName is the name of the skill
\* with that id
FilterBySkill(warnings, skillId) ==
  LET target == {i \in 1..Len(skills) : skills[i].id = skillId}
  IN IF target = {} THEN <<>>
     ELSE LET targetSkill == skills[CHOOSE i \in target : \A j \in target : i <= j]
              Keep(warning) == warning.skillName = targetSkill.name
          IN SelectSeq(warnings, Keep)

\* C8: getSkillWarnings returns exactly the warnings of the consistency check
\* of the same collection whose skillName is the name of the skill with that
\* id, in the same order, and the empty list when no skill has that id.
C8_QueryFiltersBulkCheck ==
  (lastQuery.asked /\ lastCheck.ran /\ lastCheck.userSkills = skills)
    => lastQuery.warnings = FilterBySkill(lastCheck.warnings, lastQuery.skillId)

-----------------------------------------------------------------------------
(* Properties of the recommender *)

SameSkill(a, b) == normalizeSkillName(a.skillName) = normalizeSkillName(b.skillName)

\* C11: whatever the collection and the user context, getWhatToLearnNext
\* returns at most 8 recommendations, and no two of them have the same
\* lowercase-trimmed skillName.
C11_AtMostEightDistinct ==
  lastRecommend.ran =>
    /\ Len(lastRecommend.result) <= 8
    /\ \A i, j \in 1..Len(lastRecommend.result) :
         SameSkill(lastRecommend.result[i], lastRecommend.result[j]) => i = j

\* a run that merged more than 8 entries, two of them for one skill, and
\* returned 8
C11_Witness ==
  /\ lastRecommend.ran
  /\ Len(lastRecommend.merged) > 8
  /\ \E i, j \in 1..Len(lastRecommend.merged) :
       i # j /\ SameSkill(lastRecommend.merged[i], lastRecommend.merged[j])
  /\ Len(lastRecommend.unique) > 8
  /\ Len(lastRecommend.result) = 8

Tier(rec) == priorityOrder[rec.priority]

\* a comes no later than b in the order by tier, then by difficulty
NotAfter(a, b) ==
  \/ Tier(a) > Tier(b)
  \/ Tier(a) = Tier(b) /\ a.difficulty <= b.difficulty

RecommendationIds(list) == {list[i].id : i \in 1..Len(list)}

\* C12: the list returned is ordered by priority tier (high, medium, low)
\* and, within a tier, by non-decreasing difficulty; it consists of entries of
\* the deduplicated list, as many as there are up to 8, and no entry that was
\* dropped comes before a kept one in that order.
C12_OrderedAndBestKept ==
  lastRecommend.ran =>
    /\ \A i, j \in 1..Len(lastRecommend.result) :
         i < j => NotAfter(lastRecommend.result[i], lastRecommend.result[j])
    /\ \A i \in 1..Len(lastRecommend.result) :
         \E k \in 1..Len(lastRecommend.unique) :
           lastRecommend.unique[k] = lastRecommend.result[i]
    /\ Len(lastRecommend.result) = Min(8, Len(lastRecommend.unique))
    /\ \A k \in 1..Len(lastRecommend.unique), i \in 1..Len(lastRecommend.result) :
         lastRecommend.unique[k].id \notin RecommendationIds(lastRecommend.result)
           => NotAfter(lastRecommend.result[i], lastRecommend.unique[k])

\* a run that dropped entries and returned entries of two tiers, and of two
\* difficulties within one tier, which the merge had in another order
C12_Witness ==
  /\ lastRecommend.ran
  /\ Len(lastRecommend.unique) > 8
  /\ \E i, j \in 1..Len(lastRecommend.result) :
       Tier(lastRecommend.result[i]) > Tier(lastRecommend.result[j])
  /\ \E i, j \in 1..Len(lastRecommend.result) :
       /\ Tier(lastRecommend.result[i]) = Tier(lastRecommend.result[j])
       /\ lastRecommend.result[i].difficulty < lastRecommend.result[j].difficulty
  /\ \E i, j \in 1..Len(lastRecommend.unique) :
       i < j /\ ~NotAfter(lastRecommend.unique[i], lastRecommend.unique[j])

StartsWith(s, prefix) ==
  Len(s) >= Len(prefix) /\ SubSeq(s, 1, Len(prefix)) = prefix

\* the source of an entry, read from the prefix of its id: 1 for a direct
\* 'enables' entry, 2 for a complementary, role-based or trending
\* suggestion, 3 for a semantic-similarity alternative
SourceRank(rec) ==
  IF StartsWith(rec.id, "next-") THEN 1
  ELSE IF StartsWith(rec.id, "semantic-") THEN 3
  ELSE 2

\* C13: in the merged list the direct 'enables' entries come first, the
\* complementary, role-based and trending suggestions next and the
\* semantic-similarity alternatives last, and of the entries of one normalized
\* skill name exactly the first one of the merged list survives the
\* deduplication.
C13_FirstInMergeOrderSurvives ==
  lastRecommend.ran =>
    /\ \A i, j \in 1..Len(lastRecommend.merged) :
         i < j => SourceRank(lastRecommend.merged[i]) <= SourceRank(lastRecommend.merged[j])
    /\ \A i \in 1..Len(lastRecommend.merged) :
         (\A j \in 1..(i - 1) : ~SameSkill(lastRecommend.merged[j], lastRecommend.merged[i]))
           <=> (\E k \in 1..Len(lastRecommend.unique) :
                  lastRecommend.unique[k] = lastRecommend.merged[i])
    /\ \A k \in 1..Len(lastRecommend.unique) :
         \E i \in 1..Len(lastRecommend.merged) :
           lastRecommend.merged[i] = lastRecommend.unique[k]

\* a run in which a direct entry and a heuristic entry name the same skill,
\* and the direct one is kept
C13_Witness ==
  /\ lastRecommend.ran
  /\ \E i, j \in 1..Len(lastRecommend.merged) :
       /\ SourceRank(lastRecommend.merged[i]) = 1
       /\ SourceRank(lastRecommend.merged[j]) = 2
       /\ SameSkill(lastRecommend.merged[i], lastRecommend.merged[j])
       /\ \E k \in 1..Len(lastRecommend.unique) :
            lastRecommend.unique[k] = lastRecommend.merged[i]

\* the collection that holds React at Mastered and nothing else
OnlyReactMastered(userSkills) ==
  /\ Len(userSkills) = 1
  /\ userSkills[1].name = "React"
  /\ userSkills[1].proficiency = "Mastered"

EnabledByReact(rec) ==
  /\ rec.skillName \in {"Next.js", "React Native", "Redux"}
  /\ rec.type = "next_step"

\* C14: for the collection that consists of React at Mastered, the list
\* returned contains at least one of Next.js, React Native and Redux with type
\* next_step, and every such entry has a difficulty within 1..10 and more
\* than 0 estimated hours, whatever the inference service does.
C14_ReactScenario ==
  (lastRecommend.ran /\ OnlyReactMastered(lastRecommend.userSkills)) =>
    /\ \E i \in 1..Len(lastRecommend.result) : EnabledByReact(lastRecommend.result[i])
    /\ \A i \in 1..Len(lastRecommend.result) :
         EnabledByReact(lastRecommend.result[i]) =>
           /\ lastRecommend.result[i].difficulty \in 1..10
           /\ lastRecommend.result[i].estimatedHours > 0

\* the scenario with an answer of the inference service for Redux in the
\* list returned, beside the pattern-matched Next.js
C14_Witness ==
  /\ lastRecommend.ran
  /\ OnlyReactMastered(lastRecommend.userSkills)
  /\ lastRecommend.requests > 0
  /\ \E i, j \in 1..Len(lastRecommend.result) :
       /\ lastRecommend.result[i].skillName = "Redux"
       /\ lastRecommend.result[i].difficulty = 3
       /\ lastRecommend.result[j].skillName = "Next.js"

-----------------------------------------------------------------------------
(* Properties of the learning path *)

\* the walks of the learning path in progress or done that have returned
FinishedWalks ==
  IF walk.status = "idle" THEN {}
  ELSE {walk.finished[k] : k \in 1..Len(walk.finished)}

NoRepeat(list) == \A i, j \in 1..Len(list) : list[i] = list[j] => i = j

ResolvedAtMostOnce ==
  /\ walk.status = "running" => NoRepeat(walk.resolved)
  /\ \A f \in FinishedWalks : NoRepeat(f.resolved)

\* C15: whatever the dependency relation the resolutions produce, cycles
\* (A requires B and B requires A, A requires A) included, a learning-path
\* walk that has started ends -- generateLearningPath returns its path, or
\* rejects when a target is no string -- and within one walk every
\* normalized name is resolved at most once.
C15_WalkEndsResolvingOnce ==
  /\ [](ResolvedAtMostOnce)
  /\ (walk.status = "running") ~> (walk.status \in {"done", "rejected"})

\* the normalized names a walk f found listed as dependencies of name
ListedBy(f, name) ==
  IF name \in DOMAIN f.listed
    THEN {normalizeSkillName(f.listed[name][k]) : k \in 1..Len(f.listed[name])}
    ELSE {}

\* a walk that ended although one skill requires itself and two skills
\* require each other
C15_Witness ==
  /\ walk.status = "done"
  /\ \E f \in FinishedWalks :
       \E a, b \in DOMAIN f.listed :
         /\ a # b
         /\ b \in ListedBy(f, a)
         /\ a \in ListedBy(f, b)
         /\ a \in ListedBy(f, a)

\* the names a walk f found required by name, directly or through others
RequiredBy(f, name) ==
  LET R[k \in 0..Cardinality(DOMAIN f.listed)] ==
        IF k = 0 THEN ListedBy(f, name)
        ELSE R[k - 1] \cup UNION {ListedBy(f, x) : x \in R[k - 1]}
  IN R[Cardinality(DOMAIN f.listed)]

NameAt(f, i) == normalizeSkillName(f.skillPath[i].skillName)

\* the target of a walk, when the sequence has it, is its last entry
TargetLast(f) ==
  \A i \in 1..Len(f.skillPath) :
    NameAt(f, i) = normalizeSkillName(f.target) => i = Len(f.skillPath)

\* C16: in the sequence a walk returns for a target, every skill comes after
\* all of its listed prerequisites that are in the sequence too, and the
\* target, when it is in the sequence, is the last entry.
C16_PrerequisitesFirst ==
  \A f \in FinishedWalks :
    /\ \A i, j \in 1..Len(f.skillPath) :
         (i # j /\ NameAt(f, j) \in ListedBy(f, NameAt(f, i))) => j < i
    /\ TargetLast(f)

\* the order of C16 for the pairs that no cycle joins: a skill comes after
\* each listed prerequisite that does not itself require the skill,
\* directly or through others.  It fails as well: a call that throws on an
\* entry of its list returns before the entries behind it are walked, and
\* its caller walks them later.
PrerequisitesFirstOffCycles ==
  \A f \in FinishedWalks :
    \A i, j \in 1..Len(f.skillPath) :
      (/\ i # j
       /\ NameAt(f, j) \in ListedBy(f, NameAt(f, i))
       /\ NameAt(f, i) \notin RequiredBy(f, NameAt(f, j)))
        => j < i

\* the case of C16 that fails with no cycle: the walk for Stew, whose
\* record lists cooking and Baking, returned cooking before Baking, which
\* the record of cooking lists behind an entry that is no name
ListedBehindNoName ==
  /\ walk.status = "done"
  /\ \E f \in FinishedWalks :
       /\ f.target = "Stew"
       /\ Len(f.skillPath) = 3
       /\ NameAt(f, 1) = "cooking" /\ NameAt(f, 2) = "baking"
       /\ NameAt(f, 3) = "stew"
       /\ "baking" \in ListedBy(f, "cooking")
       /\ "cooking" \notin RequiredBy(f, "baking")

\* the user holds a skill of this normalized name at Learning or above
HoldsAtLearningOrAbove(userSkills, name) ==
  \E k \in 1..Len(userSkills) :
    /\ normalizeSkillName(userSkills[k].name) = name
    /\ userSkills[k].proficiency \in {"Learning", "Proficient", "Mastered"}

\* C17: the sequence a walk returns never contains a skill the user holds at
\* Learning, Proficient or Mastered, and a skill the walk reached that the
\* user holds only at Want to Learn, or not at all, is in it exactly once.
C17_HeldSkippedOthersOnce ==
  \A f \in FinishedWalks :
    /\ \A i \in 1..Len(f.skillPath) :
         ~HoldsAtLearningOrAbove(walk.userSkills, NameAt(f, i))
    /\ \A name \in f.visited :
         ~HoldsAtLearningOrAbove(walk.userSkills, name)
           => Cardinality({i \in 1..Len(f.skillPath) : NameAt(f, i) = name}) = 1

-----------------------------------------------------------------------------
(* Properties of the analysis endpoint *)

\* the request that was answered carries a skillName
WithSkillName ==
  /\ lastResponse.request.kind = "object"
  /\ "skillName" \in DOMAIN lastResponse.request.body
  /\ lastResponse.request.body.skillName # ""

WithPrompt == WithSkillName /\ HasPrompt(lastResponse.request.body)

\* the upstream service answered with a text that is not empty
ContentArrived ==
  /\ lastResponse.upstream.kind = "ok"
  /\ lastResponse.upstream.content # ""

\* the failures the claim names: the request body cannot be read, the
\* upstream service is unreachable, answers with a non-success status or
\* with an unreadable completion, or its content is empty
InternalFailure ==
  \/ lastResponse.request.kind \in {"unreadable", "null"}
  \/ WithSkillName /\ ~ContentArrived

\* C18: a request without skillName is answered with status 400; an internal
\* failure (request body unreadable, upstream unreachable, upstream status
\* not a success, upstream content empty) is answered with status 500 and the
\* one fixed message, as is every other answer of status 500, so that the
\* detail of the failure is never in the response.
C18_ErrorAnswers ==
  lastResponse.sent =>
    /\ (lastResponse.request.kind = "object" /\ ~WithSkillName)
         => lastResponse.response.status = 400
    /\ InternalFailure =>
         /\ lastResponse.response.status = 500
         /\ lastResponse.response.body = ErrorBody
    /\ lastResponse.response.status = 500 => lastResponse.response.body = ErrorBody

\* a request with a skillName that met an upstream service answering 503
C18_Witness ==
  /\ lastResponse.sent
  /\ WithSkillName
  /\ lastResponse.upstream.kind = "status"
  /\ lastResponse.response.status = 500

\* the extraction of route.ts:65-72 finds no JSON in the content
NothingParsed ==
  /\ ContentArrived
  /\ ~ExtractJson(lastResponse.upstream.content,
                  JsonMatch(lastResponse.upstream.content)).ok

\* the response is a success whose suggestions, at most 5, are scraped from
\* the lines of the content
ScrapedSuccess ==
  /\ lastResponse.response.status = 200
  /\ lastResponse.response.body.success
  /\ Len(lastResponse.response.body.suggestions) <= 5
  /\ \A i \in 1..Len(lastResponse.response.body.suggestions) :
       /\ lastResponse.response.body.suggestions[i].name # ""
       /\ includes(lastResponse.upstream.content,
                   lastResponse.response.body.suggestions[i].name)
       /\ lastResponse.response.body.suggestions[i].confidence = Str("medium")
       /\ lastResponse.response.body.suggestions[i].category = Str("other")

\* C19: for a request without a custom prompt, whenever the extraction finds
\* no parseable JSON in the upstream content, the endpoint falls back to the
\* line-based scraper and answers with a success built from it; for a request
\* with a custom prompt it answers with status 500 and the fixed message.
C19_ScraperWithoutPrompt ==
  (lastResponse.sent /\ WithSkillName /\ NothingParsed) =>
    IF WithPrompt
      THEN lastResponse.response = [status |-> 500, body |-> ErrorBody]
      ELSE ScrapedSuccess

\* C19 as it was stated: whenever the content yields no parseable JSON, the
\* answer is a success built by the scraper and not an error.
C19_ScraperAlways ==
  (lastResponse.sent /\ WithSkillName /\ NothingParsed) => ScrapedSuccess

\* a request without a prompt whose upstream content was a bulleted list, of
\* which five lines were scraped
C19_Witness ==
  /\ lastResponse.sent
  /\ WithSkillName /\ ~WithPrompt
  /\ NothingParsed
  /\ lastResponse.response.status = 200
  /\ Len(lastResponse.response.body.suggestions) = 5

\* the array of suggestion objects the content carries, when it carries one
ArrayCarried(content) ==
  LET carried == {a \in DOMAIN ArrayTexts :
                    /\ includes(content, a)
                    /\ Len(ArrayTexts[a].arr) > 0
                    /\ \A k \in 1..Len(ArrayTexts[a].arr) : ArrayTexts[a].arr[k].t = "object"}
  IN IF carried = {} THEN None
     ELSE ArrayTexts[CHOOSE a \in carried : \A b \in carried : Len(b) <= Len(a)]

\* the names of the elements of an array that have a name, trimmed
NamesIn(array) ==
  LET F[i \in 0..Len(array.arr)] ==
        IF i = 0 THEN <<>>
        ELSE IF Field(array.arr[i], "name").t = "string"
          THEN Append(F[i - 1], trim(array.arr[i].obj.name.str))
        ELSE F[i - 1]
  IN F[Len(array.arr)]

\* C20: for a request without a custom prompt, when the upstream content
\* carries a well-formed JSON array of suggestion objects, with or without
\* prose around it, the answer is a success whose suggestions are the valid
\* elements of that array, up to 5, whether the array has one element or
\* several.
C20_ArrayExtracted ==
  (/\ lastResponse.sent
   /\ WithSkillName /\ ~WithPrompt
   /\ ContentArrived
   /\ ArrayCarried(lastResponse.upstream.content) # None) =>
    /\ lastResponse.response.status = 200
    /\ [i \in 1..Len(lastResponse.response.body.suggestions) |->
          lastResponse.response.body.suggestions[i].name]
         = Slice(NamesIn(ArrayCarried(lastResponse.upstream.content)), 5)

\* the suggestions the endpoint had before it: the array that was parsed from
\* the content (nothing when what was parsed is no array), or what the
\* scraper built from the lines of the content
InputSuggestions(content) ==
  LET parsed == ExtractJson(content, JsonMatch(content))
  IN IF parsed.ok
       THEN IF parsed.value.t = "array" THEN parsed.value.arr ELSE <<>>
       ELSE ScrapeLines(SplitLines(content), 1, lastResponse.request.body.skillName)

\* the positions of a list of JSON values that hold an object with a string
\* name that is not empty
Named(list) ==
  {i \in 1..Len(list) : /\ list[i].t = "object"
                        /\ Field(list[i], "name").t = "string"
                        /\ Field(list[i], "name").str # ""}

\* the response carries a list of suggestions
SuggestionsReturned ==
  /\ lastResponse.sent
  /\ lastResponse.response.status = 200
  /\ "suggestions" \in DOMAIN lastResponse.response.body

\* C21: every suggestion list the analysis endpoint returns has at most 5
\* entries, every entry has a name that is a string and not empty and a
\* confidence that is one of high, medium and low, and the list has no more
\* entries than the input had suggestions with a string name (the others are
\* dropped).
C21_SuggestionListValid ==
  SuggestionsReturned =>
    /\ Len(lastResponse.response.body.suggestions) <= 5
    /\ Len(lastResponse.response.body.suggestions)
         <= Cardinality(Named(InputSuggestions(lastResponse.upstream.content)))
    /\ \A i \in 1..Len(lastResponse.response.body.suggestions) :
         /\ lastResponse.response.body.suggestions[i].name \in STRING
         /\ lastResponse.response.body.suggestions[i].name # ""
         /\ lastResponse.response.body.suggestions[i].confidence
              \in {Str("high"), Str("medium"), Str("low")}

\* a list of 5 suggestions was returned for a content of which more than 5
\* lines name a suggestion
C21_Witness ==
  /\ SuggestionsReturned
  /\ Cardinality(Named(InputSuggestions(lastResponse.upstream.content))) > 5
  /\ Len(lastResponse.response.body.suggestions) = 5

-----------------------------------------------------------------------------
(* Properties of overlapping resolver calls *)

SameName(c, d) == normalizeSkillName(calls[c].name) = normalizeSkillName(calls[d].name)

\* c started first and had sent its request but not completed when d, a call
\* for the same normalized name, started and sent a request of its own
Overlapping(c, d) ==
  /\ c < d
  /\ SameName(c, d)
  /\ calls[c].sent /\ calls[d].sent
  /\ c \notin calls[d].doneBefore

\* a record a caller can use
ValidRecord(c) ==
  /\ calls[c].result # None
  /\ calls[c].result.skillName = calls[c].name
  /\ calls[c].result.difficulty \in 1..10
  /\ calls[c].result.estimatedHours >= 1
  /\ calls[c].result.source \in {"algorithmic", "cache", "llm"}

\* e started after every earlier call for its name had completed, two of
\* which had overlapped
AfterOverlap(e) ==
  /\ \A c \in 1..(e - 1) : SameName(c, e) => c \in calls[e].doneBefore
  /\ \E c, d \in 1..(e - 1) : SameName(d, e) /\ Overlapping(c, d)

OverlapHarmless ==
  /\ \A c, d \in 1..Len(calls) :
       Overlapping(c, d) =>
         /\ getAlgorithmicDependencies(calls[c].name) = None
         /\ (calls[c].state = "done" /\ calls[d].state = "done") =>
              /\ ValidRecord(c) /\ ValidRecord(d)
              /\ {k \in DOMAIN skillAnalysisCache :
                    normalizeSkillName(k) = normalizeSkillName(calls[c].name)}
                   = {normalizeSkillName(calls[c].name)}
              /\ \E w \in 1..Len(calls) :
                   /\ SameName(w, c) /\ calls[w].sent /\ calls[w].state = "done"
                   /\ skillAnalysisCache[normalizeSkillName(calls[c].name)]
                        = calls[w].result
  /\ \A e \in 1..Len(calls) :
       AfterOverlap(e) =>
         /\ ~calls[e].sent
         /\ calls[e].state = "done"
         /\ calls[e].result =
              [skillAnalysisCache[normalizeSkillName(calls[e].name)]
                 EXCEPT !.source = "cache"]

\* C22: calls for the same unmatched, uncached name that overlap each send
\* their own request, and this is harmless: every call completes, with a
\* valid record; the cache then holds one entry for the normalized name, the
\* record of one of the calls; and every call started after the overlapping
\* ones have completed returns that cached record and sends no request.
C22_OverlapHarmless ==
  /\ []OverlapHarmless
  /\ \A c \in 1..MaxOverlapping :
       (Len(calls) >= c /\ calls[c].state = "pending")
         ~> (Len(calls) >= c /\ calls[c].state = "done")

\* two overlapping calls completed with different records, and a third call,
\* spelled differently, was then served from the cache
C22_Witness ==
  \E c, d, e \in 1..Len(calls) :
    /\ Overlapping(c, d)
    /\ calls[c].state = "done" /\ calls[d].state = "done"
    /\ calls[c].result.difficulty # calls[d].result.difficulty
    /\ AfterOverlap(e) /\ SameName(d, e)
    /\ calls[e].name # calls[d].name
    /\ calls[e].result.source = "cache"

-----------------------------------------------------------------------------
(* Properties of the resolver: requests and the cache *)

\* C23: one getSkillDependencies call sends at most one request; a call that
\* sent none returned at once, and a call whose request failed has returned
\* the degraded default with that one request: no call waits for a second
\* response after a first one has arrived.
C23_AtMostOneRequest ==
  \A c \in 1..Len(calls) :
    /\ calls[c].requests <= 1
    /\ calls[c].requests = (IF calls[c].sent THEN 1 ELSE 0)
    /\ calls[c].state = "pending" => calls[c].env = None
    /\ (calls[c].state = "done" /\ calls[c].env # None /\ IsFailure(calls[c].env))
         => (DegradedDefault(calls[c].result) /\ calls[c].requests = 1)

\* a call whose one request met an upstream service answering 503 has
\* returned the default
C23_Witness ==
  \E c \in DoneCalls :
    /\ calls[c].env = [reachable |-> TRUE,
                       upstream |-> [kind |-> "status", status |-> 503]]
    /\ calls[c].requests = 1
    /\ DegradedDefault(calls[c].result)

-----------------------------------------------------------------------------
(* Properties of the check and the recommender when the work on a skill fails *)

\* the loop over list gets to position j: no entry up to j makes it throw
Reached(list, j) == \A k \in 1..j : ~IsNotString(list[k])

\* (skill, listed dependency) pairs the check gets to and that call for a
\* warning
ReachedPairs ==
  UNION { { <<i, j>> : j \in {d \in 1..Len(lastCheck.resolved[i].dependencies) :
                               /\ Reached(lastCheck.resolved[i].dependencies, d)
                               /\ ExpectedType(lastCheck.resolved[i].dependencies[d])
                                    # "none"} } :
          i \in {k \in 1..Len(lastCheck.userSkills) : Knows(lastCheck.userSkills[k])} }

\* the check returns the warnings of every skill, up to the dependency on
\* which the work on the skill failed
CheckSurvives ==
  lastCheck.ran =>
    /\ Len(lastCheck.resolved) = Len(lastCheck.userSkills)
    /\ \A i \in 1..Len(lastCheck.userSkills) :
         Knows(lastCheck.userSkills[i]) => lastCheck.resolved[i] # None
    /\ {lastCheck.origins[n] : n \in 1..Len(lastCheck.origins)} = ReachedPairs
    /\ \A n \in 1..Len(lastCheck.warnings) :
         /\ lastCheck.warnings[n].type = ExpectedType(DependencyAt(lastCheck, n))
         /\ lastCheck.warnings[n].skillName = SubjectAt(lastCheck, n).name

\* the skills the recommender's first loop works on
LearnedIn(userSkills) == {i \in 1..Len(userSkills) : Knows(userSkills[i])}

HeldIn(userSkills, name) ==
  \E k \in 1..Len(userSkills) :
    normalizeSkillName(userSkills[k].name) = normalizeSkillName(name)

\* the recommender has worked on every learned skill of the collection it
\* was called with, and has pushed an entry for every skill that a learned
\* skill enables and the user does not hold, up to the entry on which the
\* work on the learned skill failed
RecommendSurvives ==
  lastRecommend.ran =>
    /\ [n \in 1..Len(lastRecommend.learned) |-> lastRecommend.learned[n].skill]
         = SelectSeq(lastRecommend.userSkills, Knows)
    /\ \A i \in 1..Len(lastRecommend.learned) :
         \A j \in 1..Len(lastRecommend.learned[i].skillDep.enables) :
           (/\ Reached(lastRecommend.learned[i].skillDep.enables, j)
            /\ ~HeldIn(lastRecommend.userSkills,
                       lastRecommend.learned[i].skillDep.enables[j]))
             => \E n \in 1..Len(lastRecommend.merged) :
                  /\ StartsWith(lastRecommend.merged[n].id, "next-")
                  /\ lastRecommend.merged[n].skillName =
                       lastRecommend.learned[i].skillDep.enables[j]
                  /\ lastRecommend.merged[n].currentSkillProficiency =
                       lastRecommend.learned[i].skill.proficiency

\* C24: the consistency check and the recommender complete when the work on
\* one skill fails (its resolution gets no answer, or a list of its record
\* holds an entry the code cannot handle): the warnings and recommendations
\* found for that skill before the failure and those of the other skills are
\* returned.
C24_FailuresContained == CheckSurvives /\ RecommendSurvives

\* both ran on a collection whose first skill has a number in its lists: the
\* check returned a warning of the second skill, the recommender an entry for
\* a skill the second skill enables
C24_Witness ==
  /\ lastCheck.ran /\ lastRecommend.ran
  /\ Len(lastCheck.userSkills) = 2
  /\ lastCheck.resolved[1] # None
  /\ \E j \in 1..Len(lastCheck.resolved[1].dependencies) :
       IsNotString(lastCheck.resolved[1].dependencies[j])
  /\ \E n \in 1..Len(lastCheck.origins) : lastCheck.origins[n][1] = 2
  /\ Len(lastRecommend.learned) = 2
  /\ \E j \in 1..Len(lastRecommend.learned[1].skillDep.enables) :
       IsNotString(lastRecommend.learned[1].skillDep.enables[j])
  /\ \E n \in 1..Len(lastRecommend.merged) :
       /\ StartsWith(lastRecommend.merged[n].id, "next-")
       /\ includes(lastRecommend.merged[n].reason, lastRecommend.learned[2].skill.name)

\* d is a resolution that sent a request, saw it fail and had returned
\* before c, a resolution of the same normalized name, started
FailedEarlier(c, d) ==
  /\ d \in calls[c].doneBefore
  /\ SameName(c, d)
  /\ calls[d].sent
  /\ IsFailure(calls[d].env)

\* C25: after one failed resolution of a name, every later resolution of the
\* same normalized name sends no request and returns the default values (no
\* dependencies, difficulty 5, 20 hours) tagged 'cache', whatever the remote
\* service would answer by then.
C25_DefaultCachedForGood ==
  \A c, d \in 1..Len(calls) :
    FailedEarlier(c, d) =>
      /\ ~calls[c].sent
      /\ calls[c].state = "done"
      /\ calls[c].result.source = "cache"
      /\ calls[c].result.dependencies = <<>>
      /\ calls[c].result.difficulty = 5
      /\ calls[c].result.estimatedHours = 20

\* What does hold: a resolution that follows a failed one sends no request
\* and returns what the cache holds at that time.
NoRequestAfterFailure ==
  \A c, d \in 1..Len(calls) :
    FailedEarlier(c, d) =>
      /\ ~calls[c].sent
      /\ calls[c].state = "done"
      /\ calls[c].result.source = "cache"

\* C26: a cache entry is write-once under every interleaving of resolver
\* calls: an entry is never removed and never changes, and any two callers
\* that receive a cache-tagged record for one normalized name receive the
\* same dependencies, difficulty and hours.
C26_EntriesWriteOnce ==
  /\ [][\A k \in DOMAIN skillAnalysisCache :
          /\ k \in DOMAIN skillAnalysisCache'
          /\ skillAnalysisCache'[k] = skillAnalysisCache[k]]_vars
  /\ [](\A c, d \in DoneCalls :
          (/\ SameName(c, d)
           /\ calls[c].result.source = "cache"
           /\ calls[d].result.source = "cache")
            => /\ calls[c].result.dependencies = calls[d].result.dependencies
               /\ calls[c].result.difficulty = calls[d].result.difficulty
               /\ calls[c].result.estimatedHours = calls[d].result.estimatedHours)

\* What does hold: an entry is never removed.
EntriesStay ==
  [][DOMAIN skillAnalysisCache \subseteq DOMAIN skillAnalysisCache']_vars

\* C27: in every reachable state every record in the cache came from remote
\* inference and is stored with the tag 'llm', under the lowercase-trimmed
\* form of its skill name; no key is a name the pattern matcher matches, and
\* no resolution that the pattern matcher answered has left an entry.
C27_CacheHoldsInferredOnly ==
  /\ \A k \in DOMAIN skillAnalysisCache :
       /\ skillAnalysisCache[k].source = "llm"
       /\ k = trim(LowerCaseChars(k))
       /\ k = trim(LowerCaseChars(skillAnalysisCache[k].skillName))
       /\ getAlgorithmicDependencies(k) = None
       /\ \E c \in DoneCalls :
            calls[c].sent /\ calls[c].result = skillAnalysisCache[k]
  /\ \A c \in DoneCalls :
       calls[c].result.source = "algorithmic"
         => normalizeSkillName(calls[c].name) \notin DOMAIN skillAnalysisCache

\* the cache holds the record inferred for " GIT " under "git", and a
\* resolution of a pattern-matched name has returned
C27_Witness ==
  /\ "git" \in DOMAIN skillAnalysisCache
  /\ skillAnalysisCache["git"].skillName = " GIT "
  /\ \E c \in DoneCalls : calls[c].result.source = "algorithmic"

-----------------------------------------------------------------------------
(* Properties of the warnings of one check *)

\* C28: the warnings one consistency check returns have pairwise distinct
\* ids, whatever dependency lists the resolutions returned.
C28_WarningIdsDistinct ==
  lastCheck.ran =>
    \A n, m \in 1..Len(lastCheck.warnings) :
      lastCheck.warnings[n].id = lastCheck.warnings[m].id => n = m

\* What does hold: the warnings of different skills have different ids, and
\* so have the warnings of one skill for dependencies that differ in more
\* than letter case and the amount of whitespace.
WarningIdsDistinctAcross ==
  lastCheck.ran =>
    \A n, m \in 1..Len(lastCheck.warnings) :
      (/\ lastCheck.warnings[n].id = lastCheck.warnings[m].id
       /\ n # m)
        => /\ lastCheck.origins[n][1] = lastCheck.origins[m][1]
           /\ replaceWhitespace(toLowerCase(DependencyAt(lastCheck, n)))
                = replaceWhitespace(toLowerCase(DependencyAt(lastCheck, m)))

-----------------------------------------------------------------------------
(* A skill and its dependency over time *)

\* the dependencies the check c resolved for the i-th skill of its collection
ListedIn(c, i) ==
  IF c.resolved[i] = None THEN {}
  ELSE {c.resolved[i].dependencies[j] :
          j \in {k \in 1..Len(c.resolved[i].dependencies) :
                   ~IsNotString(c.resolved[i].dependencies[k])}}

\* (i, d): the i-th skill of the collection is at Learning or above and the
\* check c resolved d as one of its dependencies
SubjectPairs(c, collection) ==
  UNION { { <<i, d>> : d \in ListedIn(c, i) } :
          i \in {k \in 1..Len(collection) : Knows(collection[k])} }

\* the check c returned a warning of this type for the skill named subject
\* and the dependency d
ReportsFor(c, type, subject, d) ==
  \E n \in 1..Len(c.warnings) :
    /\ c.warnings[n].type = type
    /\ c.warnings[n].skillName = subject
    /\ normalizeSkillName(DependencyAt(c, n)) = normalizeSkillName(d)

\* the check c still took the skill named subject as one that depends on d
StillSubject(c, collection, subject, d) ==
  \E p \in SubjectPairs(c, collection) : collection[p[1]].name = subject /\ p[2] = d

HoldersOf(collection, d) ==
  {k \in 1..Len(collection) :
     normalizeSkillName(collection[k].name) = normalizeSkillName(d)}

\* the check of a collection without d reports d missing
MissingReported ==
  \A p \in SubjectPairs(lastCheck, lastCheck.userSkills) :
    ~hasSkill(lastCheck.userSkills, p[2]).exists
      => ReportsFor(lastCheck, "missing_dependency",
                    lastCheck.userSkills[p[1]].name, p[2])

\* d was absent and has been added at Want to Learn
AddedAtDefault(d) ==
  /\ ~hasSkill(lastOp.before, d).exists
  /\ lastOp.op \in {"addSkill", "addMissingSkill"}
  /\ lastOp.proficiency = "Want to Learn"
  /\ normalizeSkillName(lastOp.name) = normalizeSkillName(d)

\* d was held at Want to Learn and has been raised
Raised(d) ==
  /\ hasSkill(lastOp.before, d).exists
  /\ hasSkill(lastOp.before, d).skill.proficiency = "Want to Learn"
  /\ lastOp.op = "updateSkillProficiency"
  /\ lastOp.name = hasSkill(lastOp.before, d).skill.name
  /\ lastOp.proficiency \in {"Learning", "Proficient", "Mastered"}

\* d was held, by one skill at Learning or above other than the skill named
\* subject, and has been removed
Removed(subject, d) ==
  /\ normalizeSkillName(subject) # normalizeSkillName(d)
  /\ Cardinality(HoldersOf(lastOp.before, d)) = 1
  /\ Knows(hasSkill(lastOp.before, d).skill)
  /\ lastOp.op = "removeSkill"
  /\ lastOp.name = hasSkill(lastOp.before, d).skill.name

\* C29: for a skill S at Learning or above whose resolved record lists D,
\* the check reports missing_dependency for (S, D) while no skill of the
\* collection it was called with matches D.  For a check of the collection
\* before a store operation and a check of the collection after it that
\* both resolved S to a record that lists D: once D has been added at the
\* default proficiency Want to Learn the later check reports
\* proficiency_mismatch and no missing_dependency for (S, D); once D has been
\* raised to Learning or above it reports no warning for (S, D); and once D,
\* a skill other than S, has been removed it reports missing_dependency for
\* (S, D) again.
C29_DependencyOverTime ==
  lastCheck.ran =>
    /\ MissingReported
    /\ (/\ prevCheck.ran
        /\ prevCheck.userSkills = lastOp.before
        /\ lastCheck.userSkills = skills) =>
         \A p \in SubjectPairs(prevCheck, lastOp.before) :
           LET S == lastOp.before[p[1]].name
               D == p[2]
           IN StillSubject(lastCheck, skills, S, D) =>
                /\ AddedAtDefault(D) =>
                     /\ ReportsFor(prevCheck, "missing_dependency", S, D)
                     /\ ReportsFor(lastCheck, "proficiency_mismatch", S, D)
                     /\ ~ReportsFor(lastCheck, "missing_dependency", S, D)
                /\ Raised(D) =>
                     /\ ReportsFor(prevCheck, "proficiency_mismatch", S, D)
                     /\ ~ReportsFor(lastCheck, "proficiency_mismatch", S, D)
                     /\ ~ReportsFor(lastCheck, "missing_dependency", S, D)
                /\ Removed(S, D) =>
                     /\ ~ReportsFor(prevCheck, "proficiency_mismatch", S, D)
                     /\ ~ReportsFor(prevCheck, "missing_dependency", S, D)
                     /\ ReportsFor(lastCheck, "missing_dependency", S, D)

\* TypeScript, whose rule lists JavaScript, was added first, at Learning,
\* and JavaScript second, from the panel; JavaScript was then raised and
\* removed, four operations in all with a check after each: the last check
\* reports JavaScript missing for TypeScript again, and the check before it
\* reported nothing for the two
C29_Witness ==
  /\ lastCheck.ran /\ prevCheck.ran
  /\ prevCheck.userSkills = lastOp.before /\ lastCheck.userSkills = skills
  /\ lastOp.nth = 4 /\ lastOp.op = "removeSkill" /\ lastOp.name = "JavaScript"
  /\ Len(lastOp.before) = 2
  /\ lastOp.before[1].id = generateId(1) /\ lastOp.before[1].name = "TypeScript"
  /\ lastOp.before[2].id = generateId(2) /\ lastOp.before[2].name = "JavaScript"
  /\ Knows(lastOp.before[2])
  /\ StillSubject(prevCheck, lastOp.before, "TypeScript", "JavaScript")
  /\ ~ReportsFor(prevCheck, "proficiency_mismatch", "TypeScript", "JavaScript")
  /\ ~ReportsFor(prevCheck, "missing_dependency", "TypeScript", "JavaScript")
  /\ ReportsFor(lastCheck, "missing_dependency", "TypeScript", "JavaScript")

\* the same course for a skill whose dependencies were inferred: Cooking,
\* answered with a list that spells the dependency docker, which the panel
\* offered under that spelling
C29_WitnessInferred ==
  /\ lastCheck.ran /\ prevCheck.ran
  /\ prevCheck.userSkills = lastOp.before /\ lastCheck.userSkills = skills
  /\ lastOp.nth = 4 /\ lastOp.op = "removeSkill" /\ lastOp.name = "docker"
  /\ lastOp.before[1].id = generateId(1) /\ lastOp.before[1].name = "Cooking"
  /\ ReportsFor(lastCheck, "missing_dependency", "Cooking", "docker")
  /\ ~ReportsFor(prevCheck, "missing_dependency", "Cooking", "docker")
  /\ ~ReportsFor(prevCheck, "proficiency_mismatch", "Cooking", "docker")
  /\ StillSubject(prevCheck, lastOp.before, "Cooking", "docker")

\* the three earlier stages of the course were met on the way
C29_StagesMet ==
  /\ lastCheck.ran /\ prevCheck.ran
  /\ prevCheck.userSkills = lastOp.before /\ lastCheck.userSkills = skills
  /\ \E p \in SubjectPairs(prevCheck, lastOp.before) :
       /\ Raised(p[2])
       /\ StillSubject(lastCheck, skills, lastOp.before[p[1]].name, p[2])
-----------------------------------------------------------------------------
(* Recommendations and the skills already held *)

HeldBy(userSkills, skillName) ==
  \E k \in 1..Len(userSkills) :
    normalizeSkillName(userSkills[k].name) = normalizeSkillName(skillName)

\* C30: no recommendation that getWhatToLearnNext returns names a skill of
\* the collection it was called with, whatever the proficiency of that skill
\* and whichever source the recommendation comes from; names are compared
\* lowercased and trimmed.
C30_NoneAlreadyHeld ==
  lastRecommend.ran =>
    \A i \in 1..Len(lastRecommend.result) :
      ~HeldBy(lastRecommend.userSkills, lastRecommend.result[i].skillName)

\* the collection held React at Mastered and Next.js under another spelling,
\* at Want to Learn: the run returned Redux, which React enables as well, and
\* complementary, trending and similar skills
C30_Witness ==
  /\ lastRecommend.ran
  /\ \E k \in 1..Len(lastRecommend.userSkills) :
       /\ lastRecommend.userSkills[k].name = "React"
       /\ lastRecommend.userSkills[k].proficiency = "Mastered"
  /\ \E k \in 1..Len(lastRecommend.userSkills) :
       /\ lastRecommend.userSkills[k].name = "next.js "
       /\ lastRecommend.userSkills[k].proficiency = "Want to Learn"
  /\ \E i \in 1..Len(lastRecommend.result) :
       /\ StartsWith(lastRecommend.result[i].id, "next-")
       /\ lastRecommend.result[i].skillName = "Redux"
  /\ \A prefix \in {"comp-", "trend-", "semantic-"} :
       \E i \in 1..Len(lastRecommend.result) :
         StartsWith(lastRecommend.result[i].id, prefix)

\* a run for a collection that holds a skill from the list of the source:
\* complementary and role-based (Testing), trending (Cloud Computing),
\* similar (Vue.js)
C30_WitnessOtherSources ==
  /\ lastRecommend.ran
  /\ \E i \in 1..Len(lastRecommend.result) :
       StartsWith(lastRecommend.result[i].id, "role-")
  /\ HeldBy(lastRecommend.userSkills, "React")
  /\ \/ HeldBy(lastRecommend.userSkills, "Testing")
     \/ HeldBy(lastRecommend.userSkills, "Cloud Computing")
     \/ HeldBy(lastRecommend.userSkills, "Vue.js")
====
